---- MODULE Spec2Model ----
(***************************************************************************)
(* DermoLink: the patient-record store (services/storageService.ts), the   *)
(* session state (context/AuthContext.tsx), the two login forms            *)
(* (pages/Auth/Login.tsx and the older App.tsx), the calls to the model    *)
(* (services/geminiService.ts) and the patient and doctor portals          *)
(* (PatientInterface, DoctorInterface) with their timers, notification     *)
(* feeds and asynchronous handlers.                                        *)
(*                                                                         *)
(* Strings the code inspects (ids, typed inputs) are sequences of          *)
(* one-character strings; strings it only stores are TLA+ strings.         *)
(***************************************************************************)
EXTENDS Integers, Sequences, FiniteSets

VARIABLES
    stored,         \* localStorage[STORAGE_KEY]: the roster blob, or no item
    seedData,       \* the contents of the module-level array SEED_DATA
    lastCall,       \* the store operation that ran last: arguments and return value
    build,          \* which login form runs: "Login" (Login.tsx) or "App" (App.tsx)
    route,          \* Login.tsx: the page shown, "login" or the path navigate() got
    activeTab,      \* Login.tsx: activeTab
    role,           \* AuthContext role (Login.tsx), or App's role state (App.tsx)
    user,           \* AuthContext user
    lsRole,         \* localStorage['dermolink_role']
    lsUser,         \* localStorage['dermolink_user']
    patientIdInput, \* patientIdInput
    patientOtpSent, \* patientOtpSent
    patientOtp,     \* patientOtp
    doctorPass,     \* doctorPass
    isPatientAuth,  \* App.tsx: isPatientAuth
    isDoctorAuth,   \* App.tsx: isDoctorAuth
    toast,          \* the message shown last by toast.error/toast.success/alert
    otpTimers,      \* pending setTimeout callbacks that reveal the code
    armedId,        \* the ID whose submission armed the code step (<<>> if unarmed)
    alarmActive,    \* PatientInterface: alarmActive
    notifications,  \* PatientInterface: notifications
    inputMsg,       \* PatientInterface: inputMsg
    isTyping,       \* PatientInterface: isTyping
    uploading,      \* PatientInterface: uploading
    messages,       \* PatientInterface: messages
    history,        \* PatientInterface: history
    alarmTimer,     \* PatientInterface: the 5 s timeout is pending
    apptTimer,      \* PatientInterface: the 15 s timeout is pending
    docNotifications, \* DoctorInterface: notifications
    uploadTimer,    \* DoctorInterface: the 10 s timeout is pending
    docPatients,    \* DoctorInterface: patients
    selectedPatient, \* DoctorInterface: selectedPatient, <<record>> or <<>> for null
    recentPatients, \* DoctorInterface: recentPatients
    analyzing,      \* DoctorInterface: analyzing
    cleaning,       \* DoctorInterface: cleaning
    analysisResult, \* DoctorInterface: analysisResult, <<result>> or <<>> for null
    processedImage, \* DoctorInterface: processedImage, <<url>> or <<>> for null
    viewMode,       \* DoctorInterface: viewMode
    inFlight,       \* the async handlers suspended at an await
    lastAi,         \* the gateway call that completed last: outcome and return value
    fired           \* how often each timed trigger fired since the session was opened

storeVars == <<stored, seedData, lastCall>>

sessionVars == <<role, user, lsRole, lsUser>>

formVars == <<activeTab, patientIdInput, patientOtpSent, patientOtp, doctorPass>>

authVars ==
    <<build, route, activeTab, role, user, lsRole, lsUser, patientIdInput,
      patientOtpSent, patientOtp, doctorPass, isPatientAuth, isDoctorAuth, toast,
      otpTimers, armedId>>

patientVars ==
    <<alarmActive, notifications, inputMsg, isTyping, uploading, messages, history,
      alarmTimer, apptTimer>>

doctorVars ==
    <<docNotifications, uploadTimer, docPatients, selectedPatient, recentPatients,
      analyzing, cleaning, analysisResult, processedImage, viewMode>>

portalVars == <<patientVars, doctorVars, inFlight, lastAi, fired>>

vars == <<storeVars, authVars, portalVars>>

(***************************************************************************)
(* Bounds of the model.                                                    *)
(***************************************************************************)
\* addPatient and matching addHistoryEntry calls made on top of the seeded roster
MaxCalls == 2
\* severity scores run over 0..MaxScore
MaxScore == 10
\* longest password typed
MaxPassLen == 4
\* code-revealing timers pending at once
MaxTimers == 1
\* Date.now() reads ClockBase or the millisecond after it; it may repeat or step back
ClockBase == 1700
\* handlers suspended at an await at once
MaxInFlight == 2
\* history entries the portals add on top of the seeded roster
MaxUploads == 1
\* records of the roster when the doctor adds the last patient
MaxRoster == 6
\* chat messages on screen when a message is sent
MaxMessages == 3
\* firings of one timed trigger that are counted
MaxFirings == 2

(***************************************************************************)
(* JavaScript values.                                                      *)
(***************************************************************************)
\* a finite number
Num(n) == [kind |-> "number", v |-> n]
\* the number NaN, as parseInt returns it for a non-numeric string
NaN == [kind |-> "NaN", v |-> 0]
\* JSON null
JsonNull == [kind |-> "null", v |-> 0]

Digit(d) == <<"0", "1", "2", "3", "4", "5", "6", "7", "8", "9">>[d + 1]

\* Number.prototype.toString() of a non-negative integer
RECURSIVE toString(_)
toString(n) ==
    IF n < 10 THEN <<Digit(n)>>
    ELSE Append(toString(n \div 10), Digit(n % 10))

\* JSON.stringify of one number: NaN and the infinities are written as null
StringifyNumber(x) == IF x.kind = "number" THEN x ELSE JsonNull

\* a slip: every age is written as null
StringifyRecord_nullAge(p) == [p EXCEPT !.age = JsonNull]

\* JSON.stringify of one PatientRecord (strings and integers are written exactly)
StringifyRecord(p) == [p EXCEPT !.age = StringifyNumber(@)]

\* JSON.stringify(patients): the document written under STORAGE_KEY
JSON_stringify(patients) ==
    [present |-> TRUE,
     text |-> [i \in 1..Len(patients) |-> StringifyRecord(patients[i])]]

\* JSON.parse(stored)
JSON_parse(item) == item.text

\* localStorage.getItem of a key that was never set
NoItem == [present |-> FALSE, text |-> <<>>]

(***************************************************************************)
(* storageService.ts                                                       *)
(***************************************************************************)
SEED_DATA ==
    << [id |-> <<"1">>, name |-> "Alice Johnson", age |-> Num(34),
        condition |-> "Melanocytic Nevus", lastUpdate |-> "2 days ago",
        status |-> "Stable", img |-> "https://picsum.photos/400/400?random=1",
        history |->
          << [date |-> "2024-05-15",
              imageUrl |-> "https://picsum.photos/150/150?random=101",
              notes |-> "Lesion shows slight redness",
              severityScore |-> 4],
             [date |-> "2024-05-12",
              imageUrl |-> "https://picsum.photos/150/150?random=102",
              notes |-> "Initial scan after medication change",
              severityScore |-> 5] >>],
       [id |-> <<"2">>, name |-> "Robert Smith", age |-> Num(52),
        condition |-> "Basal Cell Carcinoma", lastUpdate |-> "Yesterday",
        status |-> "Critical", img |-> "https://picsum.photos/400/400?random=2",
        history |-> <<>>],
       [id |-> <<"3">>, name |-> "Maria Garcia", age |-> Num(28),
        condition |-> "Eczema", lastUpdate |-> "1 week ago",
        status |-> "Improving", img |-> "https://picsum.photos/400/400?random=3",
        history |-> <<>>] >>

\* a slip: push instead of unshift, the element goes to the back
unshift_push(arr, x) == Append(arr, x)

\* Array.prototype.unshift: the element goes to the front
unshift(arr, x) == <<x>> \o arr

\* a slip: falls back to the first record where findIndex answers -1
findIndex_orFirst(patients, id) ==
    IF \E i \in 1..Len(patients) : patients[i].id = id
    THEN (CHOOSE i \in 1..Len(patients) :
             /\ patients[i].id = id
             /\ \A j \in 1..(i - 1) : patients[j].id # id) - 1
    ELSE 0

\* Array.prototype.findIndex(p => p.id === id): 0-based, -1 when nothing matches
findIndex(patients, id) ==
    IF \E i \in 1..Len(patients) : patients[i].id = id
    THEN (CHOOSE i \in 1..Len(patients) :
             /\ patients[i].id = id
             /\ \A j \in 1..(i - 1) : patients[j].id # id) - 1
    ELSE -1

\* Array.prototype.find(p => p.id === id): <<record>>, or <<>> for undefined
find(patients, id) ==
    LET index == findIndex(patients, id)
    IN  IF index = -1 THEN <<>> ELSE <<patients[index + 1]>>

\* a slip: the seed is written on every call
NotStored_always(item) == TRUE

\* `!stored` in getPatients: no item under the key
NotStored(item) == ~item.present

\* getPatients(): what it returns and what it leaves in storage
getPatients(item, seed) ==
    IF NotStored(item)
    THEN [ret |-> seed, item |-> JSON_stringify(seed)]
    ELSE [ret |-> JSON_parse(item), item |-> item]

\* a slip: >= where the code compares with >
StatusOf_inclusive(severityScore) ==
    IF severityScore >= 7 THEN "Critical"
    ELSE IF severityScore >= 4 THEN "Stable"
    ELSE "Improving"

\* the status addHistoryEntry derives from the entry's severityScore
StatusOf(severityScore) ==
    IF severityScore > 7 THEN "Critical"
    ELSE IF severityScore > 4 THEN "Stable"
    ELSE "Improving"

\* a slip: the history is replaced by the new entry alone
WithEntry_overwrite(p, entry) ==
    [p EXCEPT !.history = <<entry>>,
              !.lastUpdate = "Just now",
              !.status = StatusOf(entry.severityScore)]

\* a slip: a zero-score check-in leaves the status as it was
WithEntry_checkInOnly(p, entry) ==
    [p EXCEPT !.history = unshift(@, entry),
              !.lastUpdate = "Just now",
              !.status = IF entry.severityScore = 0 THEN @
                         ELSE StatusOf(entry.severityScore)]

\* the record at patients[index] after addHistoryEntry's three assignments
WithEntry(p, entry) ==
    [p EXCEPT !.history = unshift(@, entry),
              !.lastUpdate = "Just now",
              !.status = StatusOf(entry.severityScore)]

\* the object addPatient builds: {...patient, id: Date.now().toString(), history: []}
NewPatient(patient, now) ==
    [id |-> toString(now), name |-> patient.name, age |-> patient.age,
     condition |-> patient.condition, lastUpdate |-> patient.lastUpdate,
     status |-> patient.status, img |-> patient.img, history |-> <<>>]

(***************************************************************************)
(* Inputs.                                                                 *)
(***************************************************************************)
ClockValues == {ClockBase, ClockBase + 1}

\* Omit<PatientRecord, 'id' | 'history'>: what handleAddPatientSubmit and other
\* callers pass; parseInt(".5") is NaN
FieldSets ==
    { [name |-> "John Doe", age |-> Num(45), condition |-> "Unknown",
       lastUpdate |-> "Just now", status |-> "Stable",
       img |-> "https://picsum.photos/400/400?random=7"],
      [name |-> "Jane Roe", age |-> NaN, condition |-> "Psoriasis",
       lastUpdate |-> "Just now", status |-> "New",
       img |-> "https://picsum.photos/400/400?random=8"] }

\* entries may be backfilled: the date lies between those of the two seeded entries
Entry(s) ==
    [date |-> "2024-05-13", imageUrl |-> "data:image/jpeg;base64,AAAA",
     notes |-> "Self-reported progress photo", severityScore |-> s]

\* the scores the portals store: 0 for a patient's photo, 9, 7, 5 or 2 for an analysis
CallerScores == {0, 2, 5, 7, 9}

Entries == {Entry(s) : s \in CallerScores}

\* every score of the scale
AllEntries == {Entry(s) : s \in 0..MaxScore}

\* ids a caller may pass: the seeded ones, the allocated ones, and one of nobody
QueryIds == {<<"1">>, <<"2">>, <<"9">>} \cup {toString(t) : t \in ClockValues}

RECURSIVE TotalHistory(_)
TotalHistory(patients) ==
    IF patients = <<>> THEN 0
    ELSE Len(Head(patients).history) + TotalHistory(Tail(patients))

\* the mutating calls that produced `patients` from the seeded roster
Calls(patients) ==
    (Len(patients) - Len(SEED_DATA)) + (TotalHistory(patients) - TotalHistory(SEED_DATA))

NoCall == [op |-> "none", id |-> <<>>, ret |-> <<>>]

(***************************************************************************)
(* The store's operations.                                                 *)
(***************************************************************************)
StoreInit ==
    /\ stored = NoItem
    /\ seedData = SEED_DATA
    /\ lastCall = NoCall

\* listPatients: getPatients()
ListPatients ==
    LET g == getPatients(stored, seedData)
    IN  /\ stored' = g.item
        /\ seedData' = seedData
        /\ lastCall' = [NoCall EXCEPT !.op = "getPatients", !.ret = g.ret]
        /\ UNCHANGED <<authVars, portalVars>>

\* getPatient(id)
GetPatient(id) ==
    LET g == getPatients(stored, seedData)
    IN  /\ stored' = g.item
        /\ seedData' = seedData
        /\ lastCall' = [NoCall EXCEPT !.op = "getPatient", !.id = id,
                                      !.ret = find(g.ret, id)]
        /\ UNCHANGED <<authVars, portalVars>>

\* addPatient(patient), reading `now` from the clock
AddPatient(patient, now) ==
    LET g == getPatients(stored, seedData)
        newPatient == NewPatient(patient, now)
        patients == unshift(g.ret, newPatient)
    IN  /\ Calls(g.ret) < MaxCalls
        /\ stored' = JSON_stringify(patients)
        \* with no blob, getPatients returned SEED_DATA itself and unshift changed it
        /\ seedData' = IF NotStored(stored) THEN patients ELSE seedData
        /\ lastCall' = [NoCall EXCEPT !.op = "addPatient", !.ret = <<newPatient>>]
        /\ UNCHANGED <<authVars, portalVars>>

\* addHistoryEntry(patientId, entry): what it does to the store
addHistoryEntry(patientId, entry) ==
    LET g == getPatients(stored, seedData)
        index == findIndex(g.ret, patientId)
        patients == [g.ret EXCEPT ![index + 1] = WithEntry(@, entry)]
    IN  /\ stored' = IF index # -1 THEN JSON_stringify(patients) ELSE g.item
        /\ seedData' = IF index # -1 /\ NotStored(stored) THEN patients ELSE seedData
        /\ lastCall' = [NoCall EXCEPT !.op = "addHistoryEntry", !.id = patientId]

\* a caller of the store calls addHistoryEntry(patientId, entry)
AddHistoryEntry(patientId, entry) ==
    LET g == getPatients(stored, seedData)
    IN  /\ findIndex(g.ret, patientId) = -1 \/ Calls(g.ret) < MaxCalls
        /\ addHistoryEntry(patientId, entry)
        /\ UNCHANGED <<authVars, portalVars>>

\* a page reload: the module is evaluated again, localStorage is kept
StoreReload ==
    /\ seedData' = SEED_DATA
    /\ stored' = stored
    /\ lastCall' = NoCall
    /\ UNCHANGED <<authVars, portalVars>>

StoreNext ==
    \/ ListPatients
    \/ \E id \in QueryIds : GetPatient(id)
    \/ \E patient \in FieldSets, now \in ClockValues : AddPatient(patient, now)
    \/ \E id \in QueryIds, entry \in Entries : AddHistoryEntry(id, entry)
    \/ StoreReload

(***************************************************************************)
(* AuthContext.tsx                                                         *)
(***************************************************************************)
\* useState<any>(null)
NoUser == [kind |-> "null", patientId |-> <<>>, name |-> ""]

\* { patientId: patientIdInput }
PatientUser(id) == [kind |-> "patient", patientId |-> id, name |-> ""]

\* { name: "Dr. S. Miller" }
DoctorUser == [kind |-> "doctor", patientId |-> <<>>, name |-> "Dr. S. Miller"]

\* a localStorage key that is not set
NoKey == [present |-> FALSE, text |-> NoUser, value |-> ""]

\* localStorage.setItem('dermolink_role', newRole)
RoleItem(newRole) == [present |-> TRUE, text |-> NoUser, value |-> newRole]

\* localStorage.setItem('dermolink_user', JSON.stringify(userData)): strings are
\* written and read back exactly
UserItem(userData) == [present |-> TRUE, text |-> userData, value |-> ""]

\* a slip: the identity is kept in memory only
login_roleOnly(newRole, userData) ==
    /\ role' = newRole
    /\ user' = userData
    /\ lsRole' = RoleItem(newRole)
    /\ lsUser' = lsUser

\* login(newRole, userData): the session state it leaves
login(newRole, userData) ==
    /\ role' = newRole
    /\ user' = userData
    /\ lsRole' = RoleItem(newRole)
    /\ lsUser' = IF userData.kind # "null" THEN UserItem(userData) ELSE lsUser

\* logout()
logout ==
    /\ role' = "NONE"
    /\ user' = NoUser
    /\ lsRole' = NoKey
    /\ lsUser' = NoKey

\* the role AuthProvider's mount effect restores from the persisted role
RestoredRole(storedRole) ==
    IF storedRole.present /\ storedRole.value # "NONE" THEN storedRole.value ELSE "NONE"

\* the identity the mount effect restores: JSON.parse(storedUser), if a role is restored
RestoredUser(storedRole, storedUser) ==
    IF storedRole.present /\ storedRole.value # "NONE" /\ storedUser.present
    THEN storedUser.text ELSE NoUser

\* the mount effect of AuthProvider: the session is restored from the two keys
RestoreSession ==
    /\ role' = RestoredRole(lsRole)
    /\ user' = RestoredUser(lsRole, lsUser)
    /\ UNCHANGED <<lsRole, lsUser>>

(***************************************************************************)
(* The two portals: component state while nothing is mounted.              *)
(***************************************************************************)
NoAi == [op |-> "none", outcome |-> <<>>, threw |-> FALSE, ret |-> <<>>]

NotFired == [alarm |-> 0, appointment |-> 0, upload |-> 0]

\* no PatientInterface is mounted
NoPatientPortal ==
    /\ alarmActive' = FALSE
    /\ notifications' = <<>>
    /\ inputMsg' = <<>>
    /\ isTyping' = FALSE
    /\ uploading' = FALSE
    /\ messages' = <<>>
    /\ history' = <<>>
    /\ alarmTimer' = FALSE
    /\ apptTimer' = FALSE

\* no DoctorInterface is mounted
NoDoctorPortal ==
    /\ docNotifications' = <<>>
    /\ uploadTimer' = FALSE
    /\ docPatients' = <<>>
    /\ selectedPatient' = <<>>
    /\ recentPatients' = <<>>
    /\ analyzing' = FALSE
    /\ cleaning' = FALSE
    /\ analysisResult' = <<>>
    /\ processedImage' = <<>>
    /\ viewMode' = "original"

(***************************************************************************)
(* Typed text.                                                             *)
(***************************************************************************)
IsSpace(c) == c = " "

RECURSIVE TrimLeft(_)
TrimLeft(str) ==
    IF str # <<>> /\ IsSpace(Head(str)) THEN TrimLeft(Tail(str)) ELSE str

RECURSIVE TrimRight(_)
TrimRight(str) ==
    IF str # <<>> /\ IsSpace(str[Len(str)])
    THEN TrimRight(SubSeq(str, 1, Len(str) - 1))
    ELSE str

\* String.prototype.trim
trim(str) == TrimRight(TrimLeft(str))

\* what a user may type as patient ID: nothing, a blank, the ID of a seeded record,
\* an ID of nobody, an ID with a blank in front
IdInputs == {<<>>, <<" ">>, <<"1">>, <<"7">>, <<" ", "1">>}

\* what a user may type as code
OtpInputs == {<<>>, <<"1", "2", "3", "4">>, <<"0", "0", "0", "0">>, <<"1", "2", "3">>}

RECURSIVE StringsUpTo(_)
StringsUpTo(n) ==
    IF n = 0 THEN {<<>>}
    ELSE StringsUpTo(n - 1) \cup
         {Append(str, c) : str \in {t \in StringsUpTo(n - 1) : Len(t) = n - 1},
                           c \in {"a", "1"}}

\* what a user may type as password
PassInputs == StringsUpTo(MaxPassLen)

(***************************************************************************)
(* services/geminiService.ts: the four calls to the model. `outcome` is    *)
(* what ai.chats / ai.models did: the request threw, or it answered.       *)
(***************************************************************************)
\* a JavaScript string, as a sequence of pieces; undefined; null
Str(s) == [kind |-> "string", s |-> s]
Undefined == [kind |-> "undefined", s |-> <<>>]
Null == [kind |-> "null", s |-> <<>>]
\* a JavaScript boolean
Bool(b) == [kind |-> "boolean", s |-> <<>>, b |-> b]

\* a string, undefined or null in a condition: '' , undefined and null are falsy
Truthy(x) == x.kind = "string" /\ x.s # <<>>

\* how a function body or a call ends
Return(value) == [threw |-> FALSE, ret |-> value]
Thrown == [threw |-> TRUE, ret |-> Undefined]

\* the request was rejected (network, quota, key)
RequestThrows == [threw |-> TRUE, text |-> Undefined, doc |-> <<>>, parts |-> <<>>]

\* the request answered with response.text = text
Answer(text) == [threw |-> FALSE, text |-> text, doc |-> <<>>, parts |-> <<>>]

\* ... with a text that is a JSON document denoting `value`
AnswerJson(value) ==
    [threw |-> FALSE, text |-> Str(<<"{...}">>), doc |-> <<value>>, parts |-> <<>>]

\* ... with candidates[0].content.parts = parts and no text
AnswerParts(parts) == [threw |-> FALSE, text |-> Undefined, doc |-> <<>>, parts |-> parts]

\* the value of the catch block in chatWithMedicalBot
ChatApology ==
    Str(<<"I'm having trouble connecting to the server. Please try again later.">>)

\* a slip: no try/catch around the request
chatWithMedicalBot_uncaught(outcome) ==
    IF outcome.threw THEN Thrown ELSE Return(outcome.text)

\* chatWithMedicalBot(history, newMessage)
chatWithMedicalBot(outcome) ==
    LET body == IF outcome.threw THEN Thrown ELSE Return(outcome.text)
    IN  IF body.threw THEN Return(ChatApology) ELSE body

\* the object the catch block of analyzeLesion returns; confidence and
\* probabilities are in hundredths
AnalysisFallback ==
    [diagnosis |-> "Analysis Failed", confidence |-> 0,
     probabilities |-> {<<"Unknown", 100>>}, severity |-> "Low",
     recommendations |-> <<"Manual review required">>, features |-> <<>>]

\* JSON.parse(response.text): throws unless the text is a JSON document
ParseJson(outcome) ==
    IF outcome.doc # <<>> THEN Return(outcome.doc[1]) ELSE Thrown

\* a slip: "No data returned" is thrown outside the try block
analyzeLesion_rethrow(outcome) ==
    LET body == IF outcome.threw THEN Thrown
                ELSE IF Truthy(outcome.text) THEN ParseJson(outcome)
                ELSE Return(AnalysisFallback)
    IN  IF ~outcome.threw /\ ~Truthy(outcome.text) THEN Thrown
        ELSE IF body.threw THEN Return(AnalysisFallback) ELSE body

\* analyzeLesion(imageBase64)
analyzeLesion(outcome) ==
    LET body == IF outcome.threw THEN Thrown
                ELSE IF Truthy(outcome.text) THEN ParseJson(outcome)
                ELSE Thrown    \* throw new Error("No data returned")
    IN  IF body.threw THEN Return(AnalysisFallback) ELSE body

\* the first part that carries inlineData: <<part>>, or <<>>
RECURSIVE FirstInline(_)
FirstInline(parts) ==
    IF parts = <<>> THEN <<>>
    ELSE IF Head(parts).inlineData THEN <<Head(parts)>>
    ELSE FirstInline(Tail(parts))

\* cleanLesionImage(imageBase64)
cleanLesionImage(outcome) ==
    LET found == FirstInline(outcome.parts)
        body == IF outcome.threw THEN Thrown
                ELSE IF found # <<>> THEN Return(Str(found[1].data))
                ELSE Return(Null)
    IN  IF body.threw THEN Return(Null) ELSE body

\* String.prototype.toUpperCase on the letters the answers are written in
toUpperCase(str) ==
    LET Upper(c) == IF c = "y" THEN "Y" ELSE IF c = "e" THEN "E"
                    ELSE IF c = "s" THEN "S" ELSE c
    IN  [i \in 1..Len(str) |-> Upper(str[i])]

\* String.prototype.includes
includes(str, sub) ==
    \E i \in 0..(Len(str) - Len(sub)) : SubSeq(str, i + 1, i + Len(sub)) = sub

\* a slip: the catch block answers false
verifySkinPhoto_failClosed(outcome) ==
    IF outcome.threw THEN Return(Bool(FALSE))
    ELSE IF outcome.text.kind = "string"
    THEN Return(Bool(includes(toUpperCase(trim(outcome.text.s)), <<"Y", "E", "S">>)))
    ELSE Return(Bool(FALSE))

\* verifySkinPhoto(imageBase64)
verifySkinPhoto(outcome) ==
    LET body == IF outcome.threw THEN Thrown
                ELSE IF outcome.text.kind = "string"
                THEN Return(Bool(includes(toUpperCase(trim(outcome.text.s)),
                                          <<"Y", "E", "S">>)))
                ELSE Return(Bool(FALSE))    \* undefined ?? false
    IN  IF body.threw THEN Return(Bool(TRUE)) ELSE body

\* a structured answer of the model with the given severity label
Analysis(severity) ==
    [diagnosis |-> "Melanoma", confidence |-> 87,
     probabilities |-> {<<"Melanoma", 87>>, <<"Melanocytic Nevus", 13>>},
     severity |-> severity, recommendations |-> <<"Biopsy">>,
     features |-> <<"Asymmetry">>]

\* what the chat request may do
ChatOutcomes ==
    {RequestThrows, Answer(Undefined), Answer(Str(<<>>)), Answer(Str(<<"Keep it up!">>))}

\* what the classification request may do: "Severe" is a label outside the schema
AnalysisOutcomes ==
    {RequestThrows, Answer(Undefined), Answer(Str(<<>>)), Answer(Str(<<"Sorry">>))}
    \cup {AnswerJson(Analysis(severity)) :
             severity \in {"Low", "Moderate", "High", "Critical", "Severe"}}

\* what the clean-up request may do
CleanOutcomes ==
    LET TextPart == [inlineData |-> FALSE, data |-> <<>>]
        ImagePart == [inlineData |-> TRUE, data |-> <<"BBBB">>]
    IN  {RequestThrows, AnswerParts(<<>>), AnswerParts(<<TextPart>>),
         AnswerParts(<<ImagePart>>), AnswerParts(<<TextPart, ImagePart>>)}

\* what the verification request may do
VerifyOutcomes ==
    {RequestThrows, Answer(Undefined)} \cup
    {Answer(Str(s)) : s \in {<<>>, <<"Y", "E", "S">>, <<"N", "O">>, <<"Y", "e", "s">>,
                             <<" ", "Y", "E", "S", ".">>, <<"Y", "E">>}}

(***************************************************************************)
(* The notification feeds of the two portals.                              *)
(***************************************************************************)
INITIAL_NOTIFICATIONS ==
    << [id |-> <<"1">>, type |-> "reminder", title |-> "Medication Due", read |-> FALSE],
       [id |-> <<"2">>, type |-> "info", title |-> "Dr. Miller", read |-> TRUE] >>

INITIAL_DOC_NOTIFICATIONS ==
    << [id |-> <<"d", "1">>, type |-> "alert", title |-> "Critical Lab Result",
        read |-> FALSE],
       [id |-> <<"d", "2">>, type |-> "info", title |-> "System Update",
        read |-> TRUE] >>

\* notifications.filter(n => !n.read).length
unreadCount(feed) == Cardinality({i \in 1..Len(feed) : ~feed[i].read})

\* a slip: only the first entry is marked
markAllRead_first(feed) ==
    [i \in 1..Len(feed) |-> IF i = 1 THEN [feed[i] EXCEPT !.read = TRUE] ELSE feed[i]]

\* prev.map(n => ({ ...n, read: true }))
markAllRead(feed) == [i \in 1..Len(feed) |-> [feed[i] EXCEPT !.read = TRUE]]

\* a slip: the filter drops the unread entries as well
deleteNotification_unreadToo(feed, id) ==
    SelectSeq(feed, LAMBDA n : n.id # id /\ n.read)

\* prev.filter(n => n.id !== id)
deleteNotification(feed, id) == SelectSeq(feed, LAMBDA n : n.id # id)

\* the entry the 5 s timeout of PatientInterface puts in front
AlarmNotification(now) ==
    [id |-> toString(now), type |-> "alert", title |-> "Missed Check-in", read |-> FALSE]

\* the entry the 15 s timeout of PatientInterface puts in front
AppointmentNotification(now) ==
    [id |-> <<"appointment-">> \o toString(now), type |-> "info",
     title |-> "Upcoming Appointment", read |-> FALSE]

\* the entry the 10 s timeout of DoctorInterface puts in front
UploadNotification(now) ==
    [id |-> <<"upload-">> \o toString(now), type |-> "info",
     title |-> "New Patient Upload", read |-> FALSE]

(***************************************************************************)
(* Which portal is rendered, and what mounting one does.                   *)
(***************************************************************************)
\* Login.tsx navigates to a dashboard path; the page behind it is rendered for
\* the session's role
DashboardShown(r, path) == build = "Login" /\ route = path /\ role = r

\* App.tsx: if (role === UserRole.PATIENT && isPatientAuth) return <PatientInterface>
PatientShown ==
    \/ DashboardShown("PATIENT", "/patient/dashboard")
    \/ build = "App" /\ role = "PATIENT" /\ isPatientAuth

\* App.tsx: if (role === UserRole.DOCTOR && isDoctorAuth) return <DoctorInterface>
DoctorShown ==
    \/ DashboardShown("DOCTOR", "/doctor/dashboard")
    \/ build = "App" /\ role = "DOCTOR" /\ isDoctorAuth

\* the patientId prop of PatientInterface
patientId == IF build = "App" THEN patientIdInput ELSE user.patientId

\* PatientInterface is mounted with prop `id`: initial state, the load effect
\* (getPatient, which seeds an absent blob) and the two timeouts
MountPatient(id, item, seed) ==
    LET g == getPatients(item, seed)
        patientData == find(g.ret, id)
    IN  /\ alarmActive' = FALSE
        /\ notifications' = INITIAL_NOTIFICATIONS
        /\ inputMsg' = <<>>
        /\ isTyping' = FALSE
        /\ uploading' = FALSE
        /\ messages' = <<[role |-> "model", text |-> Str(<<"Hello! I'm DermoBot. How is your skin feeling today? Any new symptoms?">>)]>>
        /\ history' = IF patientData # <<>> THEN patientData[1].history ELSE <<>>
        /\ alarmTimer' = TRUE
        /\ apptTimer' = TRUE
        /\ stored' = g.item
        /\ seedData' = seed
        /\ lastCall' = [NoCall EXCEPT !.op = "getPatient", !.id = id, !.ret = patientData]
        /\ NoDoctorPortal

\* DoctorInterface is mounted: initial state, the load effect (getPatients) and
\* the timeout
MountDoctor(item, seed) ==
    LET g == getPatients(item, seed)
    IN  /\ docNotifications' = INITIAL_DOC_NOTIFICATIONS
        /\ uploadTimer' = TRUE
        /\ docPatients' = g.ret
        /\ selectedPatient' = <<>>
        /\ recentPatients' = <<>>
        /\ analyzing' = FALSE
        /\ cleaning' = FALSE
        /\ analysisResult' = <<>>
        /\ processedImage' = <<>>
        /\ viewMode' = "original"
        /\ stored' = g.item
        /\ seedData' = seed
        /\ lastCall' = [NoCall EXCEPT !.op = "getPatients", !.ret = g.ret]
        /\ NoPatientPortal

\* handlers suspended at an await outlive their component: what they set in it
\* afterwards is dropped
Orphaned(requests) == [i \in 1..Len(requests) |-> [requests[i] EXCEPT !.live = FALSE]]

\* a successful login renders the portal of the new session
OpenPortal ==
    /\ IF PatientShown' THEN MountPatient(patientId', stored, seedData)
       ELSE MountDoctor(stored, seedData)
    /\ inFlight' = Orphaned(inFlight)
    /\ fired' = NotFired
    /\ UNCHANGED lastAi

\* the portal is unmounted (logout, or the login page is opened): its timeouts
\* are cleared by the effects' cleanup
ClosePortal ==
    /\ NoPatientPortal
    /\ NoDoctorPortal
    /\ inFlight' = Orphaned(inFlight)
    /\ UNCHANGED <<storeVars, lastAi, fired>>

\* the page is loaded again: scripts start over, and the portal of the restored
\* session, if any, is mounted
ReloadPortal ==
    /\ IF PatientShown' THEN MountPatient(patientId', stored, SEED_DATA)
       ELSE IF DoctorShown' THEN MountDoctor(stored, SEED_DATA)
       ELSE /\ NoPatientPortal /\ NoDoctorPortal
            /\ stored' = stored /\ seedData' = SEED_DATA /\ lastCall' = NoCall
    /\ inFlight' = <<>>
    /\ lastAi' = NoAi
    /\ fired' = IF role' = "NONE" THEN NotFired ELSE fired

\* the step of a login handler: a portal is rendered if the login succeeded
AfterLogin ==
    IF PatientShown' \/ DoctorShown' THEN OpenPortal
    ELSE UNCHANGED <<storeVars, portalVars>>

(***************************************************************************)
(* pages/Auth/Login.tsx                                                    *)
(***************************************************************************)
\* a slip: any typed code is accepted
OtpAccepted_nonEmpty(otp) == otp # <<>>

\* patientOtp === '1234'
OtpAccepted(otp) == otp = <<"1", "2", "3", "4">>

\* a slip: the ID field is rendered in both steps
IdFieldShown_always(sent) == TRUE

\* {!patientOtpSent ? (ID field, Send OTP) : (code field, Verify, Change ID)}
IdFieldShown(sent) == ~sent

\* a slip: three characters are enough
PassAccepted_three(pass) == Len(pass) >= 3

\* doctorPass.length > 3
PassAccepted(pass) == Len(pass) > 3

\* the state a freshly mounted Login has
FreshForm ==
    /\ activeTab' = "PATIENT"
    /\ patientIdInput' = <<>>
    /\ patientOtpSent' = FALSE
    /\ patientOtp' = <<>>
    /\ doctorPass' = <<>>
    /\ armedId' = <<>>

LoginShown == build = "Login" /\ route = "login"

\* onChange of the patient ID field
SetPatientIdInput(text) ==
    /\ LoginShown /\ activeTab = "PATIENT" /\ IdFieldShown(patientOtpSent)
    /\ patientIdInput' = text
    /\ UNCHANGED <<storeVars, portalVars, build, route, activeTab, sessionVars, patientOtpSent,
                   patientOtp, doctorPass, isPatientAuth, isDoctorAuth, toast,
                   otpTimers, armedId>>

\* onChange of the code field
SetPatientOtp(text) ==
    /\ LoginShown /\ activeTab = "PATIENT" /\ patientOtpSent
    /\ patientOtp' = text
    /\ UNCHANGED <<storeVars, portalVars, build, route, activeTab, sessionVars, patientIdInput,
                   patientOtpSent, doctorPass, isPatientAuth, isDoctorAuth, toast,
                   otpTimers, armedId>>

\* onChange of the password field
SetDoctorPass(text) ==
    /\ LoginShown /\ activeTab = "DOCTOR"
    /\ doctorPass' = text
    /\ UNCHANGED <<storeVars, portalVars, build, route, activeTab, sessionVars, patientIdInput,
                   patientOtpSent, patientOtp, isPatientAuth, isDoctorAuth, toast,
                   otpTimers, armedId>>

\* handlePatientLogin: the Send OTP and the Verify & Enter buttons
HandlePatientLogin ==
    /\ LoginShown /\ activeTab = "PATIENT"
    /\ IF trim(patientIdInput) = <<>>
       THEN /\ toast' = "Please enter your Patient ID"
            /\ UNCHANGED <<route, formVars, sessionVars, otpTimers, armedId>>
       ELSE IF ~patientOtpSent
       THEN /\ otpTimers < MaxTimers
            /\ patientOtpSent' = TRUE
            /\ otpTimers' = otpTimers + 1
            /\ armedId' = patientIdInput
            /\ UNCHANGED <<route, activeTab, patientIdInput, patientOtp, doctorPass,
                           sessionVars, toast>>
       ELSE IF OtpAccepted(patientOtp)
       THEN /\ login("PATIENT", PatientUser(patientIdInput))
            /\ toast' = "Welcome back!"
            /\ route' = "/patient/dashboard"
            /\ FreshForm
            /\ UNCHANGED otpTimers
       ELSE /\ toast' = "Invalid OTP"
            /\ UNCHANGED <<route, formVars, sessionVars, otpTimers, armedId>>
    /\ UNCHANGED <<build, isPatientAuth, isDoctorAuth>>
    /\ AfterLogin

\* handleDoctorLogin: the Access Dashboard button and Enter in the password field
HandleDoctorLogin ==
    /\ LoginShown /\ activeTab = "DOCTOR"
    /\ IF PassAccepted(doctorPass)
       THEN /\ login("DOCTOR", DoctorUser)
            /\ toast' = "Welcome, Doctor."
            /\ route' = "/doctor/dashboard"
            /\ FreshForm
       ELSE /\ toast' = "Incorrect Password (min 4 chars)"
            /\ UNCHANGED <<route, formVars, sessionVars, armedId>>
    /\ UNCHANGED <<build, isPatientAuth, isDoctorAuth, otpTimers>>
    /\ AfterLogin

\* switchTab(role)
SwitchTab(tab) ==
    /\ LoginShown
    /\ activeTab' = tab
    /\ patientOtpSent' = FALSE
    /\ patientOtp' = <<>>
    /\ doctorPass' = <<>>
    /\ armedId' = <<>>
    /\ UNCHANGED <<storeVars, portalVars, build, route, sessionVars, patientIdInput, isPatientAuth,
                   isDoctorAuth, toast, otpTimers>>

\* the Change ID button: setPatientOtpSent(false)
ChangeId ==
    /\ LoginShown /\ activeTab = "PATIENT" /\ patientOtpSent
    /\ patientOtpSent' = FALSE
    /\ armedId' = <<>>
    /\ UNCHANGED <<storeVars, portalVars, build, route, activeTab, sessionVars, patientIdInput,
                   patientOtp, doctorPass, isPatientAuth, isDoctorAuth, toast,
                   otpTimers>>

\* the callback of setTimeout(..., 500): toast.success("OTP sent! (Code: 1234)")
OtpToast ==
    /\ build = "Login" /\ otpTimers > 0
    /\ otpTimers' = otpTimers - 1
    /\ toast' = "OTP sent! (Code: 1234)"
    /\ UNCHANGED <<storeVars, portalVars, build, route, formVars, sessionVars, isPatientAuth,
                   isDoctorAuth, armedId>>

\* a portal calls logout()
Logout ==
    /\ build = "Login" /\ route # "login"
    /\ logout
    /\ ClosePortal
    /\ UNCHANGED <<build, route, formVars, isPatientAuth, isDoctorAuth, toast, otpTimers,
                   armedId>>

\* the user opens the login page: Login is mounted with its initial state
OpenLogin ==
    /\ build = "Login" /\ route # "login"
    /\ route' = "login"
    /\ FreshForm
    /\ ClosePortal
    /\ UNCHANGED <<build, sessionVars, isPatientAuth, isDoctorAuth, toast, otpTimers>>

\* a page reload: every component is mounted again, timers and toasts are gone,
\* AuthProvider's effect restores the session from localStorage
Reload ==
    /\ build = "Login"
    /\ RestoreSession
    /\ FreshForm
    /\ toast' = "none"
    /\ otpTimers' = 0
    /\ UNCHANGED <<build, route, isPatientAuth, isDoctorAuth>>
    /\ ReloadPortal

(***************************************************************************)
(* App.tsx: the older login form, which keeps the session in its own state *)
(***************************************************************************)
\* the form is rendered unless one of the two portals is
AppFormShown ==
    /\ build = "App"
    /\ ~(role = "PATIENT" /\ isPatientAuth)
    /\ ~(role = "DOCTOR" /\ isDoctorAuth)

\* a slip: a prefix of the code is enough
AppOtpAccepted_prefix(otp) == Len(otp) >= 3 /\ SubSeq(otp, 1, 3) = <<"1", "2", "3">>

\* patientOtp === '1234'
AppOtpAccepted(otp) == otp = <<"1", "2", "3", "4">>

\* the Patient Access and Doctor Dashboard buttons: setRole
AppChoosePortal(r) ==
    /\ AppFormShown /\ role = "NONE"
    /\ role' = r
    /\ UNCHANGED <<storeVars, portalVars, build, route, activeTab, user, lsRole, lsUser,
                   patientIdInput, patientOtpSent, patientOtp, doctorPass,
                   isPatientAuth, isDoctorAuth, toast, otpTimers, armedId>>

\* onChange of the patient ID field, rendered while !patientOtpSent
AppSetPatientIdInput(text) ==
    /\ AppFormShown /\ role = "PATIENT" /\ ~patientOtpSent
    /\ patientIdInput' = text
    /\ UNCHANGED <<storeVars, portalVars, build, route, activeTab, sessionVars, patientOtpSent,
                   patientOtp, doctorPass, isPatientAuth, isDoctorAuth, toast,
                   otpTimers, armedId>>

\* onChange of the code field, rendered while patientOtpSent
AppSetPatientOtp(text) ==
    /\ AppFormShown /\ role = "PATIENT" /\ patientOtpSent
    /\ patientOtp' = text
    /\ UNCHANGED <<storeVars, portalVars, build, route, activeTab, sessionVars, patientIdInput,
                   patientOtpSent, doctorPass, isPatientAuth, isDoctorAuth, toast,
                   otpTimers, armedId>>

\* onChange of the password field
AppSetDoctorPass(text) ==
    /\ AppFormShown /\ role = "DOCTOR"
    /\ doctorPass' = text
    /\ UNCHANGED <<storeVars, portalVars, build, route, activeTab, sessionVars, patientIdInput,
                   patientOtpSent, patientOtp, isPatientAuth, isDoctorAuth, toast,
                   otpTimers, armedId>>

\* App's handlePatientLogin
AppHandlePatientLogin ==
    /\ AppFormShown /\ role = "PATIENT"
    /\ IF trim(patientIdInput) = <<>>
       THEN /\ toast' = "Please enter your Patient ID"
            /\ UNCHANGED <<patientOtpSent, isPatientAuth, otpTimers, armedId>>
       ELSE IF ~patientOtpSent
       THEN /\ otpTimers < MaxTimers
            /\ patientOtpSent' = TRUE
            /\ otpTimers' = otpTimers + 1
            /\ armedId' = patientIdInput
            /\ UNCHANGED <<isPatientAuth, toast>>
       ELSE IF AppOtpAccepted(patientOtp)
       THEN /\ isPatientAuth' = TRUE
            /\ UNCHANGED <<patientOtpSent, toast, otpTimers, armedId>>
       ELSE /\ toast' = "Invalid OTP"
            /\ UNCHANGED <<patientOtpSent, isPatientAuth, otpTimers, armedId>>
    /\ UNCHANGED <<build, route, activeTab, sessionVars, patientIdInput, patientOtp,
                   doctorPass, isDoctorAuth>>
    /\ AfterLogin

\* App's handleDoctorLogin
AppHandleDoctorLogin ==
    /\ AppFormShown /\ role = "DOCTOR"
    /\ IF Len(doctorPass) > 3
       THEN isDoctorAuth' = TRUE /\ UNCHANGED toast
       ELSE toast' = "Please enter a valid password (min 4 chars)"
                /\ UNCHANGED isDoctorAuth
    /\ UNCHANGED <<build, route, activeTab, sessionVars, patientIdInput,
                   patientOtpSent, patientOtp, doctorPass, isPatientAuth, otpTimers,
                   armedId>>
    /\ AfterLogin

\* handleLogout: the Back button of either form and onLogout of either portal
AppHandleLogout ==
    /\ build = "App" /\ role # "NONE"
    /\ role' = "NONE"
    /\ isPatientAuth' = FALSE
    /\ isDoctorAuth' = FALSE
    /\ patientOtpSent' = FALSE
    /\ patientOtp' = <<>>
    /\ doctorPass' = <<>>
    /\ patientIdInput' = <<>>
    /\ armedId' = <<>>
    /\ UNCHANGED <<build, route, activeTab, user, lsRole, lsUser, toast, otpTimers>>
    /\ ClosePortal

\* the callback of setTimeout(..., 500): alert("Your OTP is: 1234")
AppOtpAlert ==
    /\ build = "App" /\ otpTimers > 0
    /\ otpTimers' = otpTimers - 1
    /\ toast' = "Your OTP is: 1234"
    /\ UNCHANGED <<storeVars, portalVars, build, route, formVars, sessionVars, isPatientAuth,
                   isDoctorAuth, armedId>>

\* a page reload: App keeps nothing
AppReload ==
    /\ build = "App"
    /\ role' = "NONE"
    /\ isPatientAuth' = FALSE
    /\ isDoctorAuth' = FALSE
    /\ patientOtpSent' = FALSE
    /\ patientOtp' = <<>>
    /\ doctorPass' = <<>>
    /\ patientIdInput' = <<>>
    /\ armedId' = <<>>
    /\ toast' = "none"
    /\ otpTimers' = 0
    /\ UNCHANGED <<build, route, activeTab, user, lsRole, lsUser>>
    /\ ReloadPortal

(***************************************************************************)
(* PatientInterface                                                        *)
(***************************************************************************)
\* a handler that is suspended at an await, with what its closure holds
Request(op, patient, name, img, processed) ==
    [op |-> op, live |-> TRUE, patient |-> patient, name |-> name, img |-> img,
     processed |-> processed]

RemoveAt(requests, i) == SubSeq(requests, 1, i - 1) \o SubSeq(requests, i + 1, Len(requests))

\* a handler that ends in addHistoryEntry may start: bounds on the entries added
\* to the store and to the patient's screen today
MayAppend ==
    LET AddedToday == {i \in 1..Len(history) : history[i].date = "2024-05-13"}
        roster == getPatients(stored, seedData).ret
    IN  /\ Len(inFlight) < MaxInFlight
        /\ (TotalHistory(roster) - TotalHistory(SEED_DATA)) + Len(inFlight) < MaxUploads
        /\ Cardinality(AddedToday) + Len(inFlight) < MaxUploads

\* the gateway call that just completed
AiCall(op, outcome, completion) ==
    [op |-> op, outcome |-> <<outcome>>, threw |-> completion.threw,
     ret |-> <<completion.ret>>]

\* what a user may type in the chat field
ChatInputs == {<<>>, <<" ">>, <<"h", "i">>}

\* onChange of the chat field
SetInputMsg(text) ==
    /\ PatientShown
    /\ inputMsg' = text
    /\ UNCHANGED <<storeVars, authVars, doctorVars, inFlight, lastAi, fired, alarmActive,
                   notifications, isTyping, uploading, messages, history, alarmTimer,
                   apptTimer>>

\* handleSendMessage, up to its await
handleSendMessage ==
    IF trim(inputMsg) = <<>>
    THEN UNCHANGED <<messages, inputMsg, isTyping, inFlight>>
    ELSE /\ messages' = Append(messages, [role |-> "user", text |-> Str(inputMsg)])
         /\ inputMsg' = <<>>
         /\ isTyping' = TRUE
         /\ inFlight' = Append(inFlight, Request("chat", <<>>, "", "", <<>>))

\* the send button is disabled={!inputMsg.trim() || isTyping}
SendDisabled == trim(inputMsg) = <<>> \/ isTyping

\* a click on the send button
ClickSend ==
    /\ PatientShown /\ ~SendDisabled
    /\ Len(messages) < MaxMessages /\ Len(inFlight) < MaxInFlight
    /\ handleSendMessage
    /\ UNCHANGED <<storeVars, authVars, doctorVars, lastAi, fired, alarmActive,
                   notifications, uploading, history, alarmTimer, apptTimer>>

\* the Enter key in the chat field, which is never disabled
EnterInChat ==
    /\ PatientShown
    /\ Len(messages) < MaxMessages /\ Len(inFlight) < MaxInFlight
    /\ handleSendMessage
    /\ UNCHANGED <<storeVars, authVars, doctorVars, lastAi, fired, alarmActive,
                   notifications, uploading, history, alarmTimer, apptTimer>>

\* handleSendMessage from its await on: the request of inFlight[i] is settled
ChatReplies(i, outcome) ==
    LET req == inFlight[i]
        responseText == chatWithMedicalBot(outcome)
        botMsg == [role |-> "model",
                   text |-> IF Truthy(responseText.ret) THEN responseText.ret
                            ELSE Str(<<"I'm currently offline.">>)]
    IN  /\ req.op = "chat"
        /\ inFlight' = RemoveAt(inFlight, i)
        /\ lastAi' = AiCall("chatWithMedicalBot", outcome, responseText)
        /\ IF req.live /\ ~responseText.threw
           THEN messages' = Append(messages, botMsg) /\ isTyping' = FALSE
           ELSE UNCHANGED <<messages, isTyping>>
        /\ UNCHANGED <<storeVars, authVars, doctorVars, fired, alarmActive, notifications,
                       inputMsg, uploading, history, alarmTimer, apptTimer>>

\* handleManualUpload and handleAlarmUpload up to their first await; both file
\* inputs are disabled={uploading}
StartUpload(op) ==
    /\ PatientShown /\ ~uploading
    /\ op = "alarm" => alarmActive
    /\ MayAppend
    /\ uploading' = TRUE
    /\ inFlight' = Append(inFlight, Request(op, patientId, "", "", <<>>))
    /\ UNCHANGED <<storeVars, authVars, doctorVars, lastAi, fired, alarmActive,
                   notifications, inputMsg, isTyping, messages, history, alarmTimer,
                   apptTimer>>

\* the entry an upload stores
UploadEntry(op) ==
    IF op = "alarm"
    THEN [Entry(0) EXCEPT !.notes = "Medication Adherence Check-in (Smart Alarm)"]
    ELSE Entry(0)

\* the uploads from fileToGenerativePart on: the file was read or not, the
\* verification request is settled
UploadCompletes(i, fileRead, outcome) ==
    LET req == inFlight[i]
        isValid == verifySkinPhoto(outcome)
        failed == ~fileRead \/ isValid.threw
        accepted == ~failed /\ isValid.ret.b
    IN  /\ req.op \in {"manual", "alarm"}
        /\ inFlight' = RemoveAt(inFlight, i)
        /\ lastAi' = IF fileRead THEN AiCall("verifySkinPhoto", outcome, isValid)
                     ELSE lastAi
        /\ IF accepted
           THEN addHistoryEntry(req.patient, UploadEntry(req.op))
           ELSE UNCHANGED storeVars
        /\ IF req.live
           THEN /\ uploading' = FALSE
                /\ alarmActive' = IF accepted /\ req.op = "alarm" THEN FALSE
                                  ELSE alarmActive
                /\ history' = IF accepted THEN <<UploadEntry(req.op)>> \o history
                              ELSE history
           ELSE UNCHANGED <<uploading, alarmActive, history>>
        /\ toast' = IF failed THEN "Error verifying image."
                    ELSE IF accepted
                    THEN IF req.op = "alarm"
                         THEN "Medication adherence recorded! Alarm disabled."
                         ELSE toast
                    ELSE IF req.op = "alarm"
                    THEN "That doesn't look like a skin photo."
                    ELSE "The AI could not verify this as a skin photo."
        /\ UNCHANGED <<build, route, formVars, sessionVars, isPatientAuth, isDoctorAuth,
                       otpTimers, armedId, doctorVars, fired, notifications, inputMsg,
                       isTyping, messages, alarmTimer, apptTimer>>

\* the callback of setTimeout(..., 5000)
AlarmFires(now) ==
    /\ PatientShown /\ alarmTimer
    /\ fired.alarm < MaxFirings
    /\ alarmTimer' = FALSE
    /\ alarmActive' = TRUE
    /\ notifications' = <<AlarmNotification(now)>> \o notifications
    /\ fired' = [fired EXCEPT !.alarm = @ + 1]
    /\ UNCHANGED <<storeVars, authVars, doctorVars, inFlight, lastAi, inputMsg, isTyping,
                   uploading, messages, history, apptTimer>>

\* the callback of setTimeout(..., 15000): it runs after the one of 5000
AppointmentFires(now) ==
    /\ PatientShown /\ apptTimer /\ ~alarmTimer
    /\ fired.appointment < MaxFirings
    /\ apptTimer' = FALSE
    /\ notifications' = <<AppointmentNotification(now)>> \o notifications
    /\ fired' = [fired EXCEPT !.appointment = @ + 1]
    /\ UNCHANGED <<storeVars, authVars, doctorVars, inFlight, lastAi, alarmActive,
                   inputMsg, isTyping, uploading, messages, history, alarmTimer>>

\* markAllRead of PatientInterface
MarkAllRead ==
    /\ PatientShown
    /\ notifications' = markAllRead(notifications)
    /\ UNCHANGED <<storeVars, authVars, doctorVars, inFlight, lastAi, fired, alarmActive,
                   inputMsg, isTyping, uploading, messages, history, alarmTimer,
                   apptTimer>>

\* deleteNotification of PatientInterface: the X button of the entry with this id
DeleteNotification(id) ==
    /\ PatientShown
    /\ \E i \in 1..Len(notifications) : notifications[i].id = id
    /\ notifications' = deleteNotification(notifications, id)
    /\ UNCHANGED <<storeVars, authVars, doctorVars, inFlight, lastAi, fired, alarmActive,
                   inputMsg, isTyping, uploading, messages, history, alarmTimer,
                   apptTimer>>

(***************************************************************************)
(* DoctorInterface                                                         *)
(***************************************************************************)
\* a slip: the list is cut to five but the patient's earlier place is kept
handlePatientSelect_noFilter(patient) ==
    /\ selectedPatient' = <<patient>>
    /\ analysisResult' = <<>>
    /\ processedImage' = <<>>
    /\ viewMode' = "original"
    /\ LET list == <<patient>> \o recentPatients
       IN  recentPatients' = SubSeq(list, 1, IF Len(list) < 5 THEN Len(list) ELSE 5)

\* handlePatientSelect(patient)
handlePatientSelect(patient) ==
    /\ selectedPatient' = <<patient>>
    /\ analysisResult' = <<>>
    /\ processedImage' = <<>>
    /\ viewMode' = "original"
    /\ LET others == SelectSeq(recentPatients, LAMBDA p : p.id # patient.id)
           list == <<patient>> \o others
       IN  recentPatients' = SubSeq(list, 1, IF Len(list) < 5 THEN Len(list) ELSE 5)

\* a click on a row of the patient list or of the recent list
HandlePatientSelect(patient) ==
    /\ DoctorShown
    /\ handlePatientSelect(patient)
    /\ UNCHANGED <<storeVars, authVars, patientVars, inFlight, lastAi, fired,
                   docNotifications, uploadTimer, docPatients, analyzing, cleaning>>

\* parseInt of the age field: the leading decimal digits, or NaN if there are none
parseInt(str) ==
    LET IsDigit(c) == \E d \in 0..9 : Digit(d) = c
        Val(c) == CHOOSE d \in 0..9 : Digit(d) = c
        RECURSIVE Lead(_, _)
        Lead(s, acc) == IF s = <<>> \/ ~IsDigit(Head(s)) THEN acc
                        ELSE Lead(Tail(s), acc * 10 + Val(Head(s)))
        t == trim(str)
    IN  IF t = <<>> \/ ~IsDigit(t[1]) THEN NaN ELSE Num(Lead(t, 0))

\* what the doctor may have typed in the Add Patient form
AddForms ==
    {[name |-> n, age |-> a, condition |-> "Unknown"] :
        n \in {"John Doe", "Jane Roe"}, a \in {<<>>, <<"4", "5">>, <<".", "5">>}}

\* the argument of addPatient in handleAddPatientSubmit: the form as typed, the
\* age parsed, and an image address made from the clock
FormFields(form, now) ==
    LET RECURSIVE Join(_)
        Join(chars) == IF chars = <<>> THEN "" ELSE Head(chars) \o Join(Tail(chars))
    IN  [name |-> form.name, age |-> parseInt(form.age),
         condition |-> form.condition, status |-> "Stable",
         lastUpdate |-> "Just now",
         img |-> "https://picsum.photos/400/400?random=" \o Join(toString(now))]

\* handleAddPatientSubmit with the form as typed, reading `now` from the clock
HandleAddPatientSubmit(form, now) ==
    LET g == getPatients(stored, seedData)
        newPatient == NewPatient(FormFields(form, now), now)
        patients == unshift(g.ret, newPatient)
    IN  /\ DoctorShown
        /\ IF form.name # "" /\ form.age # <<>>
           THEN /\ Len(g.ret) < MaxRoster
                /\ stored' = JSON_stringify(patients)
                /\ seedData' = IF NotStored(stored) THEN patients ELSE seedData
                /\ lastCall' = [NoCall EXCEPT !.op = "getPatients",
                                              !.ret = JSON_parse(stored')]
                /\ docPatients' = JSON_parse(stored')
                /\ handlePatientSelect(newPatient)
           ELSE UNCHANGED <<storeVars, docPatients, selectedPatient, analysisResult,
                            processedImage, viewMode, recentPatients>>
        /\ UNCHANGED <<authVars, patientVars, inFlight, lastAi, fired, docNotifications,
                       uploadTimer, analyzing, cleaning>>

\* runAnalysis up to its first await; the button is disabled={analyzing}
RunAnalysis ==
    /\ DoctorShown /\ ~analyzing
    /\ selectedPatient # <<>>
    /\ MayAppend
    /\ analyzing' = TRUE
    /\ inFlight' = Append(inFlight, Request("analysis", selectedPatient[1].id,
                                            selectedPatient[1].name,
                                            selectedPatient[1].img, processedImage))
    /\ UNCHANGED <<storeVars, authVars, patientVars, lastAi, fired, docNotifications,
                   uploadTimer, docPatients, selectedPatient, recentPatients, cleaning,
                   analysisResult, processedImage, viewMode>>

\* a slip: High scores 8, which the store reads as Critical
ScoreOf_highAsCritical(severity) ==
    IF severity = "Critical" THEN 9
    ELSE IF severity = "High" THEN 8
    ELSE IF severity = "Moderate" THEN 5
    ELSE 2

\* result.severity === 'Critical' ? 9 : ... === 'High' ? 7 : ... === 'Moderate' ? 5 : 2
ScoreOf(severity) ==
    IF severity = "Critical" THEN 9
    ELSE IF severity = "High" THEN 7
    ELSE IF severity = "Moderate" THEN 5
    ELSE 2

\* `AI Diagnosis: ${result.diagnosis} (${Math.round(result.confidence * 100)}%)`
NotesOf(result) ==
    IF result.diagnosis = "Analysis Failed" THEN "AI Diagnosis: Analysis Failed (0%)"
    ELSE "AI Diagnosis: Melanoma (87%)"

\* the entry runAnalysis stores
AnalysisEntry(req, result) ==
    [date |-> "2024-05-13", imageUrl |-> req.img, processedImageUrl |-> req.processed,
     notes |-> NotesOf(result), severityScore |-> ScoreOf(result.severity),
     analysisResult |-> result]

\* runAnalysis from fetch on: the image was fetched or not, the classification
\* request is settled
AnalysisCompletes(i, fetched, outcome) ==
    LET req == inFlight[i]
        result == analyzeLesion(outcome)
        failed == ~fetched \/ result.threw
    IN  /\ req.op = "analysis"
        /\ inFlight' = RemoveAt(inFlight, i)
        /\ lastAi' = IF fetched THEN AiCall("analyzeLesion", outcome, result) ELSE lastAi
        /\ IF failed THEN UNCHANGED storeVars
           ELSE addHistoryEntry(req.patient, AnalysisEntry(req, result.ret))
        /\ IF req.live
           THEN /\ analyzing' = FALSE
                /\ analysisResult' = IF failed THEN analysisResult ELSE <<result.ret>>
                /\ docPatients' = IF failed THEN docPatients
                                  ELSE getPatients(stored', seedData').ret
           ELSE UNCHANGED <<analyzing, analysisResult, docPatients>>
        /\ toast' = IF failed THEN "Failed to analyze image." ELSE toast
        /\ UNCHANGED <<build, route, formVars, sessionVars, isPatientAuth, isDoctorAuth,
                       otpTimers, armedId, patientVars, fired, docNotifications,
                       uploadTimer, selectedPatient, recentPatients, cleaning,
                       processedImage, viewMode>>

\* runHairRemoval up to its first await; the button is disabled={cleaning}
RunHairRemoval ==
    /\ DoctorShown /\ ~cleaning
    /\ selectedPatient # <<>>
    /\ Len(inFlight) < MaxInFlight
    /\ cleaning' = TRUE
    /\ inFlight' = Append(inFlight, Request("clean", selectedPatient[1].id,
                                            selectedPatient[1].name,
                                            selectedPatient[1].img, <<>>))
    /\ UNCHANGED <<storeVars, authVars, patientVars, lastAi, fired, docNotifications,
                   uploadTimer, docPatients, selectedPatient, recentPatients, analyzing,
                   analysisResult, processedImage, viewMode>>

\* runHairRemoval from fetch on
CleanCompletes(i, fetched, outcome) ==
    LET req == inFlight[i]
        cleanBase64 == cleanLesionImage(outcome)
        failed == ~fetched \/ cleanBase64.threw
        cleaned == ~failed /\ Truthy(cleanBase64.ret)
    IN  /\ req.op = "clean"
        /\ inFlight' = RemoveAt(inFlight, i)
        /\ lastAi' = IF fetched THEN AiCall("cleanLesionImage", outcome, cleanBase64)
                     ELSE lastAi
        /\ IF req.live
           THEN /\ cleaning' = FALSE
                /\ processedImage' = IF cleaned THEN <<cleanBase64.ret>> ELSE processedImage
                /\ viewMode' = IF cleaned THEN "processed" ELSE viewMode
           ELSE UNCHANGED <<cleaning, processedImage, viewMode>>
        /\ toast' = IF failed THEN "Failed to process image."
                    ELSE IF cleaned THEN toast ELSE "Could not process image."
        /\ UNCHANGED <<storeVars, build, route, formVars, sessionVars, isPatientAuth,
                       isDoctorAuth, otpTimers, armedId, patientVars, fired,
                       docNotifications, uploadTimer, docPatients, selectedPatient,
                       recentPatients, analyzing, analysisResult>>

\* the callback of setTimeout(..., 10000)
UploadAlertFires(now) ==
    /\ DoctorShown /\ uploadTimer
    /\ fired.upload < MaxFirings
    /\ uploadTimer' = FALSE
    /\ docNotifications' = <<UploadNotification(now)>> \o docNotifications
    /\ fired' = [fired EXCEPT !.upload = @ + 1]
    /\ UNCHANGED <<storeVars, authVars, patientVars, inFlight, lastAi, docPatients,
                   selectedPatient, recentPatients, analyzing, cleaning, analysisResult,
                   processedImage, viewMode>>

\* markAllRead of DoctorInterface
DocMarkAllRead ==
    /\ DoctorShown
    /\ docNotifications' = markAllRead(docNotifications)
    /\ UNCHANGED <<storeVars, authVars, patientVars, inFlight, lastAi, fired, uploadTimer,
                   docPatients, selectedPatient, recentPatients, analyzing, cleaning,
                   analysisResult, processedImage, viewMode>>

\* deleteNotification of DoctorInterface
DocDeleteNotification(id) ==
    /\ DoctorShown
    /\ \E i \in 1..Len(docNotifications) : docNotifications[i].id = id
    /\ docNotifications' = deleteNotification(docNotifications, id)
    /\ UNCHANGED <<storeVars, authVars, patientVars, inFlight, lastAi, fired, uploadTimer,
                   docPatients, selectedPatient, recentPatients, analyzing, cleaning,
                   analysisResult, processedImage, viewMode>>

\* the session and form state right after the page is loaded with empty storage
AuthStart ==
    /\ route = "login"
    /\ activeTab = "PATIENT"
    /\ role = "NONE"
    /\ user = NoUser
    /\ lsRole = NoKey
    /\ lsUser = NoKey
    /\ patientIdInput = <<>>
    /\ patientOtpSent = FALSE
    /\ patientOtp = <<>>
    /\ doctorPass = <<>>
    /\ isPatientAuth = FALSE
    /\ isDoctorAuth = FALSE
    /\ toast = "none"
    /\ otpTimers = 0
    /\ armedId = <<>>

\* the login form is shown: no portal is mounted, nothing is in flight
PortalStart ==
    /\ alarmActive = FALSE
    /\ notifications = <<>>
    /\ inputMsg = <<>>
    /\ isTyping = FALSE
    /\ uploading = FALSE
    /\ messages = <<>>
    /\ history = <<>>
    /\ alarmTimer = FALSE
    /\ apptTimer = FALSE
    /\ docNotifications = <<>>
    /\ uploadTimer = FALSE
    /\ docPatients = <<>>
    /\ selectedPatient = <<>>
    /\ recentPatients = <<>>
    /\ analyzing = FALSE
    /\ cleaning = FALSE
    /\ analysisResult = <<>>
    /\ processedImage = <<>>
    /\ viewMode = "original"
    /\ inFlight = <<>>
    /\ lastAi = NoAi
    /\ fired = NotFired

Init == StoreInit /\ build = "Login" /\ AuthStart /\ PortalStart

Next == StoreNext

Spec == Init /\ [][Next]_vars

AuthInit == StoreInit /\ build \in {"Login", "App"} /\ AuthStart /\ PortalStart

AuthNext ==
    \/ \E text \in IdInputs : SetPatientIdInput(text)
    \/ \E text \in OtpInputs : SetPatientOtp(text)
    \/ \E text \in PassInputs : SetDoctorPass(text)
    \/ HandlePatientLogin
    \/ HandleDoctorLogin
    \/ \E tab \in {"PATIENT", "DOCTOR"} : SwitchTab(tab)
    \/ ChangeId
    \/ OtpToast
    \/ Logout
    \/ OpenLogin
    \/ Reload
    \/ \E r \in {"PATIENT", "DOCTOR"} : AppChoosePortal(r)
    \/ \E text \in IdInputs : AppSetPatientIdInput(text)
    \/ \E text \in OtpInputs : AppSetPatientOtp(text)
    \/ \E text \in PassInputs : AppSetDoctorPass(text)
    \/ AppHandlePatientLogin
    \/ AppHandleDoctorLogin
    \/ AppHandleLogout
    \/ AppOtpAlert
    \/ AppReload

SpecAuth == AuthInit /\ [][AuthNext]_vars

\* what a caller of login may pass: a role of the enum and a payload, or none
LoginRoles == {"PATIENT", "DOCTOR", "NONE"}

LoginPayloads == {NoUser, PatientUser(<<"1">>), PatientUser(<<"7">>), DoctorUser}

\* a consumer of useAuth() calls login(newRole, userData)
ApiLogin(newRole, userData) ==
    /\ LoginShown
    /\ login(newRole, userData)
    /\ UNCHANGED <<storeVars, portalVars, build, route, formVars, isPatientAuth,
                   isDoctorAuth, toast, otpTimers, armedId>>

\* AuthProvider driven by the login form and by any other consumer of the context
SessionNext ==
    \/ \E text \in IdInputs : SetPatientIdInput(text)
    \/ \E text \in OtpInputs : SetPatientOtp(text)
    \/ \E text \in {<<>>, <<"a", "1", "a", "1">>} : SetDoctorPass(text)
    \/ HandlePatientLogin
    \/ HandleDoctorLogin
    \/ \E tab \in {"PATIENT", "DOCTOR"} : SwitchTab(tab)
    \/ ChangeId
    \/ OtpToast
    \/ Logout
    \/ OpenLogin
    \/ Reload
    \/ \E newRole \in LoginRoles, userData \in LoginPayloads : ApiLogin(newRole, userData)

SpecSession == Init /\ [][SessionNext]_vars

\* App.tsx starts with empty storage
AppInit == StoreInit /\ build = "App" /\ AuthStart /\ PortalStart

\* the way into and out of the portals through App.tsx's forms
AppEnter ==
    \/ \E r \in {"PATIENT", "DOCTOR"} : AppChoosePortal(r)
    \/ \E text \in {<<"1">>, <<"7">>} : AppSetPatientIdInput(text)
    \/ AppSetPatientOtp(<<"1", "2", "3", "4">>)
    \/ AppSetDoctorPass(<<"a", "1", "a", "1">>)
    \/ AppHandlePatientLogin
    \/ AppHandleDoctorLogin
    \/ AppOtpAlert
    \/ AppHandleLogout

\* the chat of the patient portal and the image clean-up of the doctor portal
GatewayNext ==
    \/ AppEnter
    \/ \E text \in ChatInputs : SetInputMsg(text)
    \/ ClickSend
    \/ EnterInChat
    \/ \E i \in 1..Len(inFlight), outcome \in ChatOutcomes : ChatReplies(i, outcome)
    \/ \E i \in 1..Len(docPatients) : HandlePatientSelect(docPatients[i])
    \/ RunHairRemoval
    \/ \E i \in 1..Len(inFlight), fetched \in BOOLEAN, outcome \in CleanOutcomes :
           CleanCompletes(i, fetched, outcome)

SpecGateway == AppInit /\ [][GatewayNext]_vars

\* the diagnosis tool of the doctor portal
AnalysisNext ==
    \/ AppEnter
    \/ \E i \in 1..Len(docPatients) : HandlePatientSelect(docPatients[i])
    \/ RunAnalysis
    \/ \E i \in 1..Len(inFlight), fetched \in BOOLEAN, outcome \in AnalysisOutcomes :
           AnalysisCompletes(i, fetched, outcome)

SpecAnalysis == AppInit /\ [][AnalysisNext]_vars

\* the doctor portal with its Add Patient form: the roster grows while the
\* diagnosis tool runs
DoctorNext ==
    \/ AppChoosePortal("DOCTOR")
    \/ AppSetDoctorPass(<<"a", "1", "a", "1">>)
    \/ AppHandleDoctorLogin
    \/ \E i \in 1..Len(docPatients) : HandlePatientSelect(docPatients[i])
    \/ \E form \in AddForms, now \in ClockValues :
           /\ form.age # <<".", "5">>
           /\ Calls(getPatients(stored, seedData).ret) < MaxCalls
           /\ HandleAddPatientSubmit(form, now)
    \/ RunAnalysis
    \/ \E i \in 1..Len(inFlight), fetched \in BOOLEAN,
          outcome \in {RequestThrows, AnswerJson(Analysis("Critical"))} :
           AnalysisCompletes(i, fetched, outcome)

SpecDoctor == AppInit /\ [][DoctorNext]_vars

\* the doctor's browser after an earlier session in which two patients were added
RecentInit ==
    LET form(name) == [name |-> name, age |-> <<"4", "5">>, condition |-> "Unknown"]
        added(name, now) == NewPatient(FormFields(form(name), now), now)
        first == unshift(SEED_DATA, added("John Doe", ClockBase - 2))
        second == unshift(JSON_parse(JSON_stringify(first)), added("Jane Roe", ClockBase - 1))
    IN  /\ stored = JSON_stringify(second)
        /\ seedData = SEED_DATA
        /\ lastCall = NoCall
        /\ build = "App" /\ AuthStart /\ PortalStart

\* the doctor selecting patients from the list and from the recent list, and
\* adding one
RecentNext ==
    \/ AppChoosePortal("DOCTOR")
    \/ AppSetDoctorPass(<<"a", "1", "a", "1">>)
    \/ AppHandleDoctorLogin
    \/ \E i \in 1..Len(docPatients) : HandlePatientSelect(docPatients[i])
    \/ \E i \in 1..Len(recentPatients) : HandlePatientSelect(recentPatients[i])
    \/ \E form \in AddForms, now \in ClockValues : HandleAddPatientSubmit(form, now)

SpecRecent == RecentInit /\ [][RecentNext]_vars

\* the four AI-backed actions of the two portals within one session, each call
\* failing, falling back or succeeding
BusyNext ==
    \/ \E r \in {"PATIENT", "DOCTOR"} : AppChoosePortal(r)
    \/ AppSetPatientIdInput(<<"1">>)
    \/ AppSetPatientOtp(<<"1", "2", "3", "4">>)
    \/ AppSetDoctorPass(<<"a", "1", "a", "1">>)
    \/ AppHandlePatientLogin
    \/ AppHandleDoctorLogin
    \/ SetInputMsg(<<"h", "i">>)
    \/ ClickSend
    \/ EnterInChat
    \/ \E i \in 1..Len(inFlight),
          outcome \in {RequestThrows, Answer(Undefined), Answer(Str(<<"Keep it up!">>))} :
           ChatReplies(i, outcome)
    \/ AlarmFires(ClockBase)
    \/ \E op \in {"manual", "alarm"} : StartUpload(op)
    \/ \E i \in 1..Len(inFlight), fileRead \in BOOLEAN,
          outcome \in {RequestThrows, Answer(Str(<<"Y", "E", "S">>)),
                       Answer(Str(<<"N", "O">>))} :
           UploadCompletes(i, fileRead, outcome)
    \/ HandlePatientSelect(SEED_DATA[1])
    \/ RunAnalysis
    \/ \E i \in 1..Len(inFlight), fetched \in BOOLEAN,
          outcome \in {RequestThrows, Answer(Undefined), AnswerJson(Analysis("High"))} :
           AnalysisCompletes(i, fetched, outcome)
    \/ RunHairRemoval
    \/ \E i \in 1..Len(inFlight), fetched \in BOOLEAN,
          outcome \in {o \in CleanOutcomes : Len(o.parts) < 2} :
           CleanCompletes(i, fetched, outcome)

\* every awaited promise settles: a suspended handler is resumed
SpecBusy ==
    /\ AppInit
    /\ [][BusyNext]_vars
    /\ WF_vars(\E i \in 1..Len(inFlight), outcome \in ChatOutcomes :
                  ChatReplies(i, outcome))
    /\ WF_vars(\E i \in 1..Len(inFlight), fileRead \in BOOLEAN,
                  outcome \in VerifyOutcomes : UploadCompletes(i, fileRead, outcome))
    /\ WF_vars(\E i \in 1..Len(inFlight), fetched \in BOOLEAN,
                  outcome \in AnalysisOutcomes : AnalysisCompletes(i, fetched, outcome))
    /\ WF_vars(\E i \in 1..Len(inFlight), fetched \in BOOLEAN,
                  outcome \in CleanOutcomes : CleanCompletes(i, fetched, outcome))

\* the alarm and the two photo uploads of the patient portal
UploadNext ==
    \/ AppEnter
    \/ AppSetPatientIdInput(<<"2">>)
    \/ \E now \in ClockValues : AlarmFires(now)
    \/ \E op \in {"manual", "alarm"} : StartUpload(op)
    \/ \E i \in 1..Len(inFlight), fileRead \in BOOLEAN, outcome \in VerifyOutcomes :
           UploadCompletes(i, fileRead, outcome)

SpecUpload == AppInit /\ [][UploadNext]_vars

\* the way into and out of the portals through Login.tsx and the session context
LoginEnter ==
    \/ \E text \in {<<"1">>, <<"7">>} : SetPatientIdInput(text)
    \/ SetPatientOtp(<<"1", "2", "3", "4">>)
    \/ SetDoctorPass(<<"a", "1", "a", "1">>)
    \/ HandlePatientLogin
    \/ HandleDoctorLogin
    \/ \E tab \in {"PATIENT", "DOCTOR"} : SwitchTab(tab)
    \/ OtpToast
    \/ Logout
    \/ Reload

\* the notification feeds of the two portals and their timed triggers, in a
\* session opened through either login form
FeedNext ==
    \/ LoginEnter
    \/ AppEnter
    \/ AppReload
    \/ \E now \in ClockValues : AlarmFires(now)
    \/ \E now \in ClockValues : AppointmentFires(now)
    \/ \E now \in ClockValues : UploadAlertFires(now)
    \/ MarkAllRead
    \/ \E i \in 1..Len(notifications) : DeleteNotification(notifications[i].id)
    \/ DocMarkAllRead
    \/ \E i \in 1..Len(docNotifications) : DocDeleteNotification(docNotifications[i].id)

SpecFeed == AuthInit /\ [][FeedNext]_vars

\* the store driven with every score of the scale, on the seeded records
StatusNext ==
    \/ \E id \in {<<"1">>, <<"2">>}, entry \in AllEntries : AddHistoryEntry(id, entry)
    \/ StoreReload

SpecStatus == Init /\ [][StatusNext]_vars

(***************************************************************************)
(* Properties of the store.                                                *)
(***************************************************************************)
\* what listPatients would return in this state
Roster == getPatients(stored, seedData).ret

\* no record of the roster has this id
NoMatch(patients, id) == \A i \in 1..Len(patients) : patients[i].id # id

\* the first record with this id
FirstMatch(patients, id) ==
    patients[CHOOSE i \in 1..Len(patients) :
                /\ patients[i].id = id
                /\ \A j \in 1..(i - 1) : patients[j].id # id]

\* C1: addPatient(fields) followed by getPatient(id of the returned record) returns
\* a record with an empty history and the submitted name, age, condition, status,
\* lastUpdate and img.
C1_AddThenGet ==
    lastCall.op = "addPatient" =>
        LET new == lastCall.ret[1]
            got == find(Roster, new.id)
        IN  /\ got # <<>>
            /\ got[1].history = <<>>
            /\ got[1].name = new.name
            /\ got[1].age = new.age
            /\ got[1].condition = new.condition
            /\ got[1].status = new.status
            /\ got[1].lastUpdate = new.lastUpdate
            /\ got[1].img = new.img

\* C1, for a finite age: the same round trip, with the age a finite number (also when
\* the allocated id repeats one already in the roster).
C1_AddThenGetFiniteAge ==
    (lastCall.op = "addPatient" /\ lastCall.ret[1].age.kind = "number") =>
        LET new == lastCall.ret[1]
            got == find(Roster, new.id)
        IN  got = <<new>>

\* C2: after addHistoryEntry(id, e) on an id that matches a record, the first element
\* of getPatient(id).history is e and the history is exactly one longer than before.
C2_EntryFirstAndOneLonger ==
    [][(lastCall'.op = "addHistoryEntry" /\ ~NoMatch(Roster, lastCall'.id)) =>
          LET id == lastCall'.id
          IN  \A e \in AllEntries :
                 AddHistoryEntry(id, e) =>
                    /\ ~NoMatch(Roster', id)
                    /\ FirstMatch(Roster', id).history[1] = e
                    /\ Len(FirstMatch(Roster', id).history)
                           = Len(FirstMatch(Roster, id).history) + 1]_vars

\* an entry was added to a record that had entries already
C2_Witness ==
    /\ lastCall.op = "addHistoryEntry"
    /\ ~NoMatch(Roster, lastCall.id)
    /\ Len(FirstMatch(Roster, lastCall.id).history) >= 3

\* the status the specification gives for a score
ExpectedStatus(s) ==
    CASE s \in {0, 1, 2, 3, 4} -> "Improving"
      [] s \in {5, 6, 7} -> "Stable"
      [] OTHER -> "Critical"

\* C3: addHistoryEntry on an existing patient sets the status from the entry's score
\* alone: above 7 Critical, 5 to 7 Stable, 4 and below Improving, never New, whatever
\* the status was before.
C3_StatusFromScore ==
    [][(lastCall'.op = "addHistoryEntry" /\ ~NoMatch(Roster, lastCall'.id)) =>
          LET id == lastCall'.id
          IN  \A e \in AllEntries :
                 AddHistoryEntry(id, e) =>
                    /\ FirstMatch(Roster', id).status = ExpectedStatus(e.severityScore)
                    /\ FirstMatch(Roster', id).status # "New"]_vars

\* the record seeded as Critical got a score of 7 and is Stable, then a 4: Improving
C3_Witness ==
    /\ lastCall.op = "addHistoryEntry"
    /\ ~NoMatch(Roster, <<"2">>)
    /\ Len(FirstMatch(Roster, <<"2">>).history) = 2
    /\ FirstMatch(Roster, <<"2">>).history[2].severityScore = 7
    /\ FirstMatch(Roster, <<"2">>).history[1].severityScore = 4
    /\ FirstMatch(Roster, <<"2">>).status = "Improving"

\* C4: no two records of the persisted roster have the same id.
C4_UniqueIds ==
    \A i, j \in 1..Len(Roster) : i # j => Roster[i].id # Roster[j].id

\* C5: across every step each record's history is unchanged or is one new entry
\* followed by the previous history exactly as it was.
C5_HistoryAppendOnly ==
    [][\A i \in 1..Len(Roster) :
          LET k == i + (Len(Roster') - Len(Roster))
          IN  /\ Len(Roster') >= Len(Roster)
              /\ Roster'[k].id = Roster[i].id
              /\ \/ Roster'[k].history = Roster[i].history
                 \/ /\ Roster'[k].history # <<>>
                    /\ Tail(Roster'[k].history) = Roster[i].history]_vars

\* an entry dated between the two seeded entries sits in front of both
C5_Witness ==
    /\ Len(Roster) >= Len(SEED_DATA)
    /\ Len(Roster[Len(Roster) - 2].history) = 3
    /\ Roster[Len(Roster) - 2].history[1].date = "2024-05-13"
    /\ Roster[Len(Roster) - 2].history[2].date = "2024-05-15"
    /\ Roster[Len(Roster) - 2].history[3].date = "2024-05-12"

\* C6: with no blob, listPatients persists and returns the three seed records, ids
\* "1", "2", "3" in that order; with a blob it returns the blob and writes nothing,
\* and no read ever replaces an existing blob.
C6_SeedOnce ==
    [][/\ ListPatients =>
            IF stored.present
            THEN stored' = stored /\ lastCall'.ret = JSON_parse(stored)
            ELSE /\ stored' = JSON_stringify(SEED_DATA)
                 /\ lastCall'.ret = SEED_DATA
                 /\ [i \in 1..Len(lastCall'.ret) |-> lastCall'.ret[i].id]
                        = << <<"1">>, <<"2">>, <<"3">> >>
       /\ (stored.present /\ lastCall'.op \in {"none", "getPatients", "getPatient"})
             => stored' = stored]_vars

\* listPatients ran on a roster that holds an added patient and returned it
C6_Witness ==
    /\ lastCall.op = "getPatients"
    /\ Len(lastCall.ret) = Len(SEED_DATA) + 1
    /\ lastCall.ret = JSON_parse(stored)

\* C7: addHistoryEntry with an id that matches no record leaves the roster that
\* listPatients returns exactly as it was.
C7_NoMatchNoOp ==
    [][(lastCall'.op = "addHistoryEntry" /\ NoMatch(Roster, lastCall'.id)) =>
          Roster' = Roster]_vars

\* addHistoryEntry ran with the id of nobody on a roster with an added patient
C7_Witness ==
    /\ lastCall.op = "addHistoryEntry"
    /\ NoMatch(Roster, lastCall.id)
    /\ Len(Roster) > Len(SEED_DATA)

(***************************************************************************)
(* Properties of the login forms.                                          *)
(***************************************************************************)
\* the one-time code
TheCode == <<"1", "2", "3", "4">>

\* this step gives the user a patient session: the session state becomes or is
\* rewritten as PATIENT, or the patient portal is entered
PatientSessionEstablished ==
    \/ /\ build = "Login"
       /\ \/ role' = "PATIENT" /\ sessionVars' # sessionVars
          \/ route' = "/patient/dashboard" /\ route # "/patient/dashboard"
    \/ /\ build = "App"
       /\ isPatientAuth' /\ ~isPatientAuth

\* C8: with a non-blank ID x submitted in step 1, confirming with "1234" yields role
\* PATIENT with identity {patientId: x}, persisted; confirming with any other code
\* leaves the session and the persisted keys as they were, reports an error and
\* leaves the form in the code step.
C8_ConfirmCode ==
    [][/\ (HandlePatientLogin /\ patientOtpSent) =>
            IF patientOtp = TheCode
            THEN /\ role' = "PATIENT"
                 /\ user' = PatientUser(armedId)
                 /\ trim(armedId) # <<>>
                 /\ lsRole' = RoleItem("PATIENT")
                 /\ lsUser' = UserItem(PatientUser(armedId))
                 /\ route' = "/patient/dashboard"
            ELSE /\ UNCHANGED <<sessionVars, route, formVars>>
                 /\ patientOtpSent'
                 /\ toast' = "Invalid OTP"
       /\ (AppHandlePatientLogin /\ patientOtpSent) =>
            IF patientOtp = TheCode
            THEN /\ isPatientAuth' /\ role' = "PATIENT"
                 /\ patientIdInput' = armedId
                 /\ trim(armedId) # <<>>
            ELSE /\ ~isPatientAuth'
                 /\ UNCHANGED <<sessionVars, formVars>>
                 /\ patientOtpSent'
                 /\ toast' = "Invalid OTP"]_vars

\* ID "1" then code "1234": the session is PATIENT with identity {patientId: "1"}
C8_Witness ==
    /\ build = "Login"
    /\ role = "PATIENT"
    /\ user = PatientUser(<<"1">>)
    /\ lsUser = UserItem(PatientUser(<<"1">>))
    /\ route = "/patient/dashboard"
    /\ toast = "Welcome back!"

\* C9: a patient session is established only by a submission made while the code
\* step is armed, with a non-blank ID and the typed code equal to "1234".
C9_LoginOnlyWithCode ==
    [][PatientSessionEstablished =>
          /\ patientOtpSent
          /\ trim(patientIdInput) # <<>>
          /\ patientOtp = TheCode
          /\ HandlePatientLogin \/ AppHandlePatientLogin]_vars

\* the older form let a patient in, after a wrong code was reported
C9_Witness ==
    /\ build = "App"
    /\ role = "PATIENT"
    /\ isPatientAuth
    /\ patientOtp = TheCode
    /\ toast = "Invalid OTP"

\* C10: in the code step the ID is not edited and no second dispatch happens; Change
\* ID returns the form to step 1 with the session untouched; the patientId stored at
\* login is the ID submitted in the most recent step 1.
C10_IdFixedWhileArmed ==
    [][/\ (patientOtpSent /\ patientOtpSent') =>
            /\ patientIdInput' = patientIdInput
            /\ armedId' = armedId
            /\ otpTimers' <= otpTimers
       /\ patientOtpSent => armedId = patientIdInput
       /\ ChangeId =>
            /\ ~patientOtpSent'
            /\ UNCHANGED <<sessionVars, route, patientIdInput>>
       /\ PatientSessionEstablished =>
            /\ trim(armedId) # <<>>
            /\ build = "Login" => /\ user'.patientId = armedId
                                  /\ lsUser'.text.patientId = armedId
            /\ build = "App" => patientIdInput' = armedId]_vars

\* Change ID was pressed with the code typed: the form is back in step 1, unarmed,
\* and a different ID has been typed
C10_Witness ==
    /\ build = "Login"
    /\ route = "login"
    /\ activeTab = "PATIENT"
    /\ ~patientOtpSent
    /\ patientOtp = TheCode
    /\ patientIdInput = <<"7">>
    /\ armedId = <<>>
    /\ role = "NONE"

(***************************************************************************)
(* Properties of the doctor login and of the session's persistence.        *)
(***************************************************************************)
\* C11: the doctor login decides on the length of the password alone. A password
\* of at most 3 characters (the empty one included) is answered with the error
\* message and leaves session, persisted keys, roster blob and page as they were;
\* a password of 4 or more characters, whatever its content, opens the doctor
\* session: role DOCTOR with the doctor identity, both persisted (Login.tsx), or
\* role DOCTOR with isDoctorAuth (App.tsx).
C11_DoctorLoginByLength ==
    [][ /\ HandleDoctorLogin =>
              IF Len(doctorPass) <= 3
              THEN /\ toast' = "Incorrect Password (min 4 chars)"
                   /\ UNCHANGED <<role, user, lsRole, lsUser, stored, route>>
              ELSE /\ role' = "DOCTOR"
                   /\ user' = DoctorUser
                   /\ lsRole' = RoleItem("DOCTOR")
                   /\ lsUser' = UserItem(DoctorUser)
        /\ AppHandleDoctorLogin =>
              IF Len(doctorPass) <= 3
              THEN /\ toast' = "Please enter a valid password (min 4 chars)"
                   /\ UNCHANGED <<role, isDoctorAuth, lsRole, lsUser, stored>>
              ELSE role' = "DOCTOR" /\ isDoctorAuth'
      ]_vars

\* a three-character password was just refused and nobody is logged in
C11_Witness ==
    /\ build = "Login"
    /\ toast = "Incorrect Password (min 4 chars)"
    /\ Len(doctorPass) = 3
    /\ role = "NONE"
    /\ ~lsRole.present

\* C12: the session survives a restart. After every login(newRole, userData),
\* whatever the session was before and with or without a payload,
\* re-initialising from the two persisted keys gives the role and identity that
\* are in memory right after the call; after logout both keys are absent and
\* re-initialising gives role NONE and no identity.
C12_SessionRoundTrip ==
    [][ /\ (\E newRole \in LoginRoles, userData \in LoginPayloads :
               login(newRole, userData)) =>
              /\ RestoredRole(lsRole') = role'
              /\ RestoredUser(lsRole', lsUser') = user'
        /\ logout =>
              /\ ~lsRole'.present /\ ~lsUser'.present
              /\ RestoredRole(lsRole') = "NONE"
              /\ RestoredUser(lsRole', lsUser') = NoUser
      ]_vars

\* C12 for the calls that carry a payload and a role other than NONE (holds)
C12_RoundTripWithPayload ==
    [][ (\E newRole \in LoginRoles \ {"NONE"}, userData \in LoginPayloads \ {NoUser} :
            login(newRole, userData)) =>
           /\ RestoredRole(lsRole') = role'
           /\ RestoredUser(lsRole', lsUser') = user'
      ]_vars

(***************************************************************************)
(* Properties of the AI gateway.                                           *)
(***************************************************************************)
\* the classification request failed: it threw, the response carried no text, or
\* the text is not a JSON document
AnalysisFailed(outcome) ==
    outcome.threw \/ outcome.text.kind # "string" \/ outcome.doc = <<>>

\* C13: whenever the classification request failed in any of these ways,
\* analyzeLesion raised nothing and returned exactly the fixed fallback result.
C13_AnalysisFallback ==
    (lastAi.op = "analyzeLesion" /\ AnalysisFailed(lastAi.outcome[1])) =>
        /\ ~lastAi.threw
        /\ lastAi.ret = << [diagnosis |-> "Analysis Failed", confidence |-> 0,
                            probabilities |-> {<<"Unknown", 100>>}, severity |-> "Low",
                            recommendations |-> <<"Manual review required">>,
                            features |-> <<>>] >>

\* the model answered with text that is no JSON, and the doctor sees the fallback
C13_Witness ==
    /\ lastAi.op = "analyzeLesion"
    /\ lastAi.outcome = <<Answer(Str(<<"Sorry">>))>>
    /\ analysisResult # <<>>
    /\ analysisResult[1].diagnosis = "Analysis Failed"

\* C15: no gateway call ends in an exception. When the chat request throws,
\* chatWithMedicalBot returns the fixed apology, and otherwise the response's
\* text (a string, or undefined); when the clean-up request throws or answers
\* without an image part, cleanLesionImage returns null, and otherwise a string.
C15_GatewayNeverThrows ==
    /\ ~lastAi.threw
    /\ lastAi.op = "chatWithMedicalBot" =>
          /\ lastAi.outcome[1].threw =>
                lastAi.ret = <<Str(<<"I'm having trouble connecting to the server. Please try again later.">>)>>
          /\ lastAi.ret[1].kind \in {"string", "undefined"}
    /\ lastAi.op = "cleanLesionImage" =>
          /\ (\/ lastAi.outcome[1].threw
              \/ \A k \in 1..Len(lastAi.outcome[1].parts) :
                    ~lastAi.outcome[1].parts[k].inlineData) => lastAi.ret = <<Null>>
          /\ lastAi.ret[1].kind \in {"string", "null"}

\* the chat request threw and the patient reads the apology
C15_Witness ==
    /\ PatientShown
    /\ lastAi.op = "chatWithMedicalBot"
    /\ lastAi.outcome[1].threw
    /\ Len(messages) > 1
    /\ messages[Len(messages)].text = ChatApology

\* the control's busy flag
Busy(op) ==
    IF op = "chat" THEN isTyping
    ELSE IF op \in {"manual", "alarm"} THEN uploading
    ELSE IF op = "analysis" THEN analyzing
    ELSE cleaning

\* the requests started from the control of the mounted portal that are pending
Pending(op) == {i \in 1..Len(inFlight) : inFlight[i].op = op /\ inFlight[i].live}

\* C19: each AI-backed control has at most one request in flight, and while it
\* has one its busy flag is on.
C19_OneRequestPerControl ==
    \A op \in {"chat", "manual", "alarm", "analysis", "clean"} :
        /\ Cardinality(Pending(op)) <= 1
        /\ Pending(op) # {} => Busy(op)

(***************************************************************************)
(* Properties of the photo uploads.                                        *)
(***************************************************************************)
\* C14: verifySkinPhoto is fail-open. When the request threw it returned true and
\* raised nothing; it returned false only for a response that was received and
\* whose text is missing or does not contain YES.
C14_VerifyFailOpen ==
    lastAi.op = "verifySkinPhoto" =>
        /\ ~lastAi.threw
        /\ lastAi.outcome[1].threw => lastAi.ret = <<Bool(TRUE)>>
        /\ lastAi.ret = <<Bool(FALSE)>> =>
              /\ ~lastAi.outcome[1].threw
              /\ \/ lastAi.outcome[1].text.kind # "string"
                 \/ ~includes(lastAi.outcome[1].text.s, <<"Y", "E", "S">>)

\* the request threw and the photo was taken as verified: it is in the history
C14_Witness ==
    /\ PatientShown
    /\ lastAi.op = "verifySkinPhoto"
    /\ lastAi.outcome[1].threw
    /\ lastAi.ret = <<Bool(TRUE)>>
    /\ Len(history) > 0
    /\ history[1].notes = "Self-reported progress photo"

\* the history the store holds for this id: <<history>>, or <<>> if no record has it
StoredHistory(roster, id) ==
    IF NoMatch(roster, id) THEN <<>> ELSE <<FirstMatch(roster, id).history>>

\* the check-in entry of an alarm upload
CheckIn ==
    [date |-> "2024-05-13", imageUrl |-> "data:image/jpeg;base64,AAAA",
     notes |-> "Medication Adherence Check-in (Smart Alarm)", severityScore |-> 0]

\* an alarm upload of the mounted portal completes with the file read and the
\* verification request failing, while the alarm is on
OutageDismissal ==
    \E i \in 1..Len(inFlight) :
        /\ inFlight[i].op = "alarm" /\ inFlight[i].live
        /\ alarmActive
        /\ UploadCompletes(i, TRUE, RequestThrows)

\* C16: during an outage of the AI service, an alarm upload whose file is read
\* ends with the alarm dismissed and with the check-in entry in front of the
\* history the store holds for the session's patient.
C16_OutageStillDismisses ==
    [][ OutageDismissal =>
          /\ ~alarmActive'
          /\ StoredHistory(Roster', patientId) # <<>>
          /\ StoredHistory(Roster', patientId)[1] =
                 <<CheckIn>> \o StoredHistory(Roster, patientId)[1]
      ]_vars

\* C16 without the store: the alarm is dismissed, the entry is in front of the
\* history on screen, and the store holds it if it has a record of the patient
\* (holds)
C16_DismissedOnScreen ==
    [][ OutageDismissal =>
          /\ ~alarmActive'
          /\ history' = <<CheckIn>> \o history
          /\ StoredHistory(Roster, patientId) # <<>> =>
                StoredHistory(Roster', patientId)[1] =
                   <<CheckIn>> \o StoredHistory(Roster, patientId)[1]
      ]_vars

(***************************************************************************)
(* Properties of the notification feeds and of the timed triggers.         *)
(***************************************************************************)
\* the unread entries of a feed
Unread(feed) == SelectSeq(feed, LAMBDA n : ~n.read)

\* `after` is `before` with every entry marked read and nothing else changed
AllMarked(before, after) ==
    /\ Len(after) = Len(before)
    /\ \A i \in 1..Len(before) : after[i] = [before[i] EXCEPT !.read = TRUE]
    /\ unreadCount(after) = 0
    /\ markAllRead(after) = after

\* C17: in both feeds unreadCount is the number of entries with read = false;
\* markAllRead marks every entry read, so that unreadCount is 0, and adds,
\* removes and reorders nothing; marking again changes nothing.
C17_MarkAllRead ==
    [][ /\ unreadCount(notifications') = Len(Unread(notifications'))
        /\ unreadCount(docNotifications') = Len(Unread(docNotifications'))
        /\ MarkAllRead => AllMarked(notifications, notifications')
        /\ DocMarkAllRead => AllMarked(docNotifications, docNotifications')
      ]_vars

\* both timed entries of the patient feed arrived and all four entries are read
C17_Witness ==
    /\ PatientShown
    /\ Len(notifications) = 4
    /\ Len(Unread(notifications)) = 0
    /\ unreadCount(notifications) = 0

\* `after` is `before` without its one entry of this id
OneRemoved(before, after, id) ==
    /\ Cardinality({k \in 1..Len(before) : before[k].id = id}) = 1
    /\ \E k \in 1..Len(before) :
          /\ before[k].id = id
          /\ after = SubSeq(before, 1, k - 1) \o SubSeq(before, k + 1, Len(before))

\* every entry of `before` is still in `after`
AllKept(before, after) ==
    \A i \in 1..Len(before) : \E j \in 1..Len(after) : after[j].id = before[i].id

\* C18: delete(id) removes exactly the one entry with that id, read or unread,
\* and leaves the other entries, their order and their read flags as they were;
\* while a portal stays mounted, no other step takes an entry out of its feed.
C18_DeleteExactlyOne ==
    [][ /\ \A i \in 1..Len(notifications) :
              DeleteNotification(notifications[i].id) =>
                 OneRemoved(notifications, notifications', notifications[i].id)
        /\ \A i \in 1..Len(docNotifications) :
              DocDeleteNotification(docNotifications[i].id) =>
                 OneRemoved(docNotifications, docNotifications', docNotifications[i].id)
        /\ (/\ PatientShown /\ PatientShown' /\ ~Reload
            /\ ~\E i \in 1..Len(notifications) : DeleteNotification(notifications[i].id))
              => AllKept(notifications, notifications')
        /\ (/\ DoctorShown /\ DoctorShown' /\ ~Reload
            /\ ~\E i \in 1..Len(docNotifications) :
                   DocDeleteNotification(docNotifications[i].id))
              => AllKept(docNotifications, docNotifications')
      ]_vars

\* the alarm's entry, which was unread, is gone; the three others are there
C18_Witness ==
    /\ PatientShown
    /\ ~alarmTimer /\ ~apptTimer
    /\ Len(notifications) = 3
    /\ \A i \in 1..Len(notifications) : notifications[i].type # "alert"
    /\ \E i \in 1..Len(notifications) : ~notifications[i].read

\* C20: between a login and the next logout each timed trigger fires at most
\* once.
C20_OneShotTriggers ==
    fired.alarm <= 1 /\ fired.appointment <= 1 /\ fired.upload <= 1

\* C20 for sessions of App.tsx, which a reload ends (holds)
C20_OneShotPerMount ==
    build = "App" => C20_OneShotTriggers

(***************************************************************************)
(* C21: a verified photo upload and the stored status                      *)
(***************************************************************************)
\* the upload of inFlight[i] completes with the file read and the photo verified
\* (or the verification failing open), for a patient the store has a record of
VerifiedUpload(i) ==
    /\ inFlight[i].op \in {"manual", "alarm"}
    /\ ~NoMatch(Roster, inFlight[i].patient)
    /\ \E outcome \in VerifyOutcomes :
          /\ verifySkinPhoto(outcome).ret = Bool(TRUE)
          /\ UploadCompletes(i, TRUE, outcome)

\* C21: after a verified manual or alarm upload for a patient of the roster, the
\* stored record of that patient has status Improving and lastUpdate
\* 'Just now', whatever its status was, and the entry stored has score 0.
C21_CheckInSetsImproving ==
    [][ \A i \in 1..Len(inFlight) :
          VerifiedUpload(i) =>
             LET after == FirstMatch(Roster', inFlight[i].patient)
             IN  /\ after.status = "Improving"
                 /\ after.lastUpdate = "Just now"
                 /\ Len(after.history) > 0
                 /\ after.history[1].severityScore = 0
      ]_vars

\* the patient seeded as Critical has uploaded a verified photo and is Improving
C21_Witness ==
    /\ PatientShown
    /\ patientId = <<"2">>
    /\ lastCall.op = "addHistoryEntry"
    /\ FirstMatch(SEED_DATA, <<"2">>).status = "Critical"
    /\ FirstMatch(Roster, <<"2">>).status = "Improving"
    /\ FirstMatch(Roster, <<"2">>).lastUpdate = "Just now"
    /\ Len(FirstMatch(Roster, <<"2">>).history) = 1

(***************************************************************************)
(* C22, C23: the doctor's tools while the selection changes                *)
(***************************************************************************)
\* this step is the completion of the live request inFlight[i], and it puts a
\* new analysis result or a new processed image on the screen
ShowsResultOf(i) ==
    /\ inFlight' = RemoveAt(inFlight, i)
    /\ inFlight[i].live
    /\ \/ /\ inFlight[i].op = "analysis"
          /\ analysisResult' # <<>> /\ analysisResult' # analysisResult
       \/ /\ inFlight[i].op = "clean"
          /\ processedImage' # <<>> /\ processedImage' # processedImage

\* C22: an analysis result or a processed image that appears on the doctor's
\* screen was computed from the image of the patient who is selected when it
\* appears, also when the selection changed while the call was in flight.
C22_ResultOfSelectedPatient ==
    [][ \A i \in 1..Len(inFlight) :
          ShowsResultOf(i) =>
             /\ selectedPatient' # <<>>
             /\ selectedPatient'[1].id = inFlight[i].patient
             /\ selectedPatient'[1].img = inFlight[i].img
      ]_vars

\* the analysis of inFlight[i] completes in this step
AnalysisEnds(i, fetched, outcome) ==
    /\ inFlight[i].op = "analysis"
    /\ inFlight' = RemoveAt(inFlight, i)
    /\ AnalysisCompletes(i, fetched, outcome)

\* record k of the roster got exactly one entry in front, carrying `result`, and
\* no other record got one
OneEntryAt(k, result) ==
    /\ Len(Roster') = Len(Roster)
    /\ Len(Roster'[k].history) = Len(Roster[k].history) + 1
    /\ SubSeq(Roster'[k].history, 2, Len(Roster'[k].history)) = Roster[k].history
    /\ Roster'[k].history[1].analysisResult = result
    /\ \A j \in 1..Len(Roster) : j # k => Roster'[j].history = Roster[j].history

\* C23: an analysis whose image was fetched appends exactly one entry, carrying
\* the returned result, to the record of the patient who was selected when it
\* was started; one whose fetch failed leaves the store as it was.
C23_EntryToStartedPatient ==
    [][ \A i \in 1..Len(inFlight), fetched \in BOOLEAN, outcome \in AnalysisOutcomes :
          AnalysisEnds(i, fetched, outcome) =>
             IF fetched
             THEN \E k \in 1..Len(Roster) :
                     /\ Roster[k].id = inFlight[i].patient
                     /\ Roster[k].name = inFlight[i].name
                     /\ Roster[k].img = inFlight[i].img
                     /\ OneEntryAt(k, analyzeLesion(outcome).ret)
             ELSE UNCHANGED storeVars
      ]_vars

\* C23 with the patient taken by id, as the store takes it: the entry goes to the
\* first record that has the id the selected patient had when the analysis was
\* started, whoever is selected when it ends (holds)
C23_EntryToStartedId ==
    [][ \A i \in 1..Len(inFlight), fetched \in BOOLEAN, outcome \in AnalysisOutcomes :
          AnalysisEnds(i, fetched, outcome) =>
             IF fetched
             THEN \E k \in 1..Len(Roster) :
                     /\ Roster[k].id = inFlight[i].patient
                     /\ \A j \in 1..(k - 1) : Roster[j].id # inFlight[i].patient
                     /\ OneEntryAt(k, analyzeLesion(outcome).ret)
             ELSE UNCHANGED storeVars
      ]_vars

(***************************************************************************)
(* C24: from the severity label to the stored status                       *)
(***************************************************************************)
\* the score and the status the specification gives for a severity label
ScoreForLabel(label) ==
    CASE label = "Critical" -> 9
      [] label = "High" -> 7
      [] label = "Moderate" -> 5
      [] OTHER -> 2

StatusForLabel(label) ==
    CASE label = "Critical" -> "Critical"
      [] label \in {"High", "Moderate"} -> "Stable"
      [] OTHER -> "Improving"

\* C24: an analysis that stores its entry stores the score of the label
\* (Critical 9, High 7, Moderate 5, any other 2) and leaves the patient with the
\* status of that score (Critical, Stable, Stable, Improving); so the status is
\* Critical only for the label Critical, and a failed classification, whose
\* fallback is labelled Low, leaves the patient Improving.
C24_LabelToStatus ==
    [][ \A i \in 1..Len(inFlight), outcome \in AnalysisOutcomes :
          AnalysisEnds(i, TRUE, outcome) =>
             LET result == analyzeLesion(outcome).ret
                 after == FirstMatch(Roster', inFlight[i].patient)
             IN  /\ after.history[1].severityScore = ScoreForLabel(result.severity)
                 /\ after.status = StatusForLabel(result.severity)
                 /\ after.status = "Critical" <=> result.severity = "Critical"
                 /\ AnalysisFailed(outcome) =>
                       result.severity = "Low" /\ after.status = "Improving"
      ]_vars

\* the patient seeded as Critical is Improving after a classification that failed
C24_Witness ==
    /\ DoctorShown
    /\ lastAi.op = "analyzeLesion"
    /\ AnalysisFailed(lastAi.outcome[1])
    /\ FirstMatch(SEED_DATA, <<"2">>).status = "Critical"
    /\ Len(FirstMatch(Roster, <<"2">>).history) = 1
    /\ FirstMatch(Roster, <<"2">>).history[1].notes = "AI Diagnosis: Analysis Failed (0%)"
    /\ FirstMatch(Roster, <<"2">>).status = "Improving"

(***************************************************************************)
(* C25: the alarm and its proof                                            *)
(***************************************************************************)
\* the alarm upload inFlight[i] of the mounted portal completes with the file
\* read and verifySkinPhoto answering true
ProvenUpload(i) ==
    /\ inFlight[i].op = "alarm" /\ inFlight[i].live
    /\ \E outcome \in VerifyOutcomes :
          /\ verifySkinPhoto(outcome).ret = Bool(TRUE)
          /\ UploadCompletes(i, TRUE, outcome)

\* the alarm upload inFlight[i] completes with the file unreadable or the photo
\* rejected
RefusedUpload(i) ==
    /\ inFlight[i].op = "alarm"
    /\ \E fileRead \in BOOLEAN, outcome \in VerifyOutcomes :
          /\ ~fileRead \/ verifySkinPhoto(outcome).ret = Bool(FALSE)
          /\ UploadCompletes(i, fileRead, outcome)

\* the alarm of the portal that stays mounted goes off in this step
AlarmDismissed == PatientShown /\ PatientShown' /\ alarmActive /\ ~alarmActive'

\* C25: while the patient portal stays mounted the alarm goes from active to
\* dismissed only when an alarm upload completes with verifySkinPhoto true, and
\* in that step exactly one zero-score check-in entry is added to the stored
\* history of the session's patient; a rejected photo or a file-read error
\* leaves the alarm and the store as they were.
C25_DismissedOnlyByProof ==
    [][ /\ AlarmDismissed =>
               /\ \E i \in 1..Len(inFlight) : ProvenUpload(i)
               /\ TotalHistory(Roster') = TotalHistory(Roster) + 1
               /\ StoredHistory(Roster', patientId) # <<>>
               /\ StoredHistory(Roster', patientId)[1] =
                      <<CheckIn>> \o StoredHistory(Roster, patientId)[1]
        /\ \A i \in 1..Len(inFlight) :
               RefusedUpload(i) => UNCHANGED <<alarmActive, storeVars, history>>
      ]_vars

\* C25 for what the screen shows: the alarm is dismissed only by a verified alarm
\* upload, which puts the check-in in front of the displayed history and, if
\* the store has a record of the patient, of the stored one; a refused upload
\* changes nothing (holds)
C25_DismissedOnlyByUpload ==
    [][ /\ AlarmDismissed =>
               /\ \E i \in 1..Len(inFlight) : ProvenUpload(i)
               /\ history' = <<CheckIn>> \o history
               /\ StoredHistory(Roster, patientId) # <<>> =>
                     /\ TotalHistory(Roster') = TotalHistory(Roster) + 1
                     /\ StoredHistory(Roster', patientId)[1] =
                            <<CheckIn>> \o StoredHistory(Roster, patientId)[1]
        /\ \A i \in 1..Len(inFlight) :
               RefusedUpload(i) => UNCHANGED <<alarmActive, storeVars, history>>
      ]_vars

(***************************************************************************)
(* C26: the history on the patient's screen and the stored one             *)
(***************************************************************************)
\* getPatient(id)?.history, read as empty when no record has the id
HistoryInStore(roster, id) ==
    IF NoMatch(roster, id) THEN <<>> ELSE FirstMatch(roster, id).history

\* this step mounts the patient portal
PatientMounts == ~PatientShown /\ PatientShown'

\* an upload of the mounted portal completes in this step
UploadEnds ==
    \E i \in 1..Len(inFlight), fileRead \in BOOLEAN, outcome \in VerifyOutcomes :
        /\ inFlight[i].op \in {"manual", "alarm"} /\ inFlight[i].live
        /\ UploadCompletes(i, fileRead, outcome)

\* C26: right after the patient portal is mounted and right after each of its
\* uploads completes, the history on screen is the history the store holds
\* for the session's patientId (both empty for an ID of no record).
C26_DisplayedIsStored ==
    [][ (PatientMounts \/ UploadEnds) =>
            history' = HistoryInStore(Roster', patientId')
      ]_vars

\* C26 at mount, for every ID (holds)
C26_DisplayedIsStoredAtMount ==
    [][ PatientMounts => history' = HistoryInStore(Roster', patientId') ]_vars

\* C26 for the IDs of the roster: an upload that starts from equal histories
\* ends with equal histories (holds)
C26_UploadKeepsKnownInStep ==
    [][ ( /\ UploadEnds
          /\ ~NoMatch(Roster, patientId)
          /\ history = HistoryInStore(Roster, patientId) ) =>
            history' = HistoryInStore(Roster', patientId')
      ]_vars

(***************************************************************************)
(* C27: role and identity                                                  *)
(***************************************************************************)
\* C27: in every state reached through Login.tsx, logout and reload, a PATIENT
\* session has the identity {patientId: x} with x not blank, a DOCTOR session
\* the doctor's name payload, and no session no identity; and the two
\* persisted keys hold exactly the role and the identity in memory (neither
\* key when there is no session).
C27_RoleIdentityAgree ==
    build = "Login" =>
        /\ role = "PATIENT" =>
              /\ user = PatientUser(user.patientId)
              /\ trim(user.patientId) # <<>>
        /\ role = "DOCTOR" => user = DoctorUser
        /\ role = "NONE" => user = NoUser
        /\ lsRole = IF role = "NONE" THEN NoKey ELSE RoleItem(role)
        /\ lsUser = IF role = "NONE" THEN NoKey ELSE UserItem(user)

\* a patient session restored by a reload: the toast of the login is gone
C27_Witness ==
    /\ build = "Login"
    /\ role = "PATIENT"
    /\ route = "/patient/dashboard"
    /\ toast = "none"
    /\ trim(user.patientId) # <<>>
    /\ lsUser = UserItem(user)

(***************************************************************************)
(* C28: the busy flags                                                     *)
(***************************************************************************)
\* the chat messages of one role on the patient's screen
MessagesOf(r) == Len(SelectSeq(messages, LAMBDA m : m.role = r))

\* the chat requests of the mounted portal that are still in flight
ChatsPending ==
    Len(SelectSeq(inFlight, LAMBDA req : req.op = "chat" /\ req.live))

\* every message sent has its answer on screen or its request in flight: the
\* answers are the model's messages but the greeting
C28_OneAnswerPerMessage ==
    PatientShown => MessagesOf("user") = (MessagesOf("model") - 1) + ChatsPending

SameButEntryFields(p, q) ==
    /\ p.id = q.id /\ p.name = q.name /\ p.age = q.age
    /\ p.condition = q.condition /\ p.img = q.img

\* C29: addHistoryEntry(id, e) changes at most the history, lastUpdate and
\* status of the first record with that id, and leaves every other record
\* and the order of the roster as they were; addPatient puts one record in
\* front and leaves the records that were there, and their order, as they were.
C29_MutationsTouchOnlyTarget ==
    [][ /\ lastCall'.op = "addHistoryEntry" =>
              /\ Len(Roster') = Len(Roster)
              /\ \A j \in 1..Len(Roster) :
                    IF Roster[j].id = lastCall'.id
                       /\ \A h \in 1..(j - 1) : Roster[h].id # lastCall'.id
                    THEN SameButEntryFields(Roster[j], Roster'[j])
                    ELSE Roster'[j] = Roster[j]
        /\ (lastCall'.op = "addPatient" /\ Roster' # Roster) =>
              /\ Len(Roster') = Len(Roster) + 1
              /\ Tail(Roster') = Roster
      ]_vars

\* an entry was added to the third of four records, behind an added patient:
\* the other three are as they were
C29_Witness ==
    /\ lastCall.op = "addHistoryEntry"
    /\ lastCall.id = <<"2">>
    /\ Len(Roster) = 4
    /\ Roster[3].id = <<"2">>
    /\ Len(Roster[3].history) = 1
    /\ Roster[3].lastUpdate = "Just now"
    /\ Roster[2] = SEED_DATA[1]
    /\ Roster[4] = SEED_DATA[3]

(***************************************************************************)
(* C30: the doctor's list of recent patients                               *)
(***************************************************************************)
\* C30: recentPatients never holds more than five records, never holds two
\* records with the same id, and begins with the patient selected last, whether
\* the selection was a click on a row or the one made by handleAddPatientSubmit.
C30_RecentListBounded ==
    /\ Len(recentPatients) <= 5
    /\ \A i, j \in 1..Len(recentPatients) :
          recentPatients[i].id = recentPatients[j].id => i = j
    /\ selectedPatient # <<>> =>
          /\ recentPatients # <<>>
          /\ recentPatients[1] = selectedPatient[1]
    /\ selectedPatient = <<>> => recentPatients = <<>>

\* the sixth patient of the roster was added and selected by the form after the
\* other five had been selected: five are listed, the new one first, and the
\* one selected longest ago is no longer listed
C30_Witness ==
    /\ Len(docPatients) = 6
    /\ Len(recentPatients) = 5
    /\ selectedPatient = <<docPatients[1]>>
    /\ recentPatients[1].id = toString(ClockBase)
    /\ recentPatients[1].name = "John Doe"
    /\ \E i \in 2..6 : \A j \in 1..5 : recentPatients[j].id # docPatients[i].id
    /\ recentPatients[5].id = <<"2">>

====
